---- MODULE Spec2Model ----
(***************************************************************************)
(* Query translation and execution pipeline of the Corebrain API:          *)
(* permission check, deny-list sanitizer, query cache, query generator,    *)
(* execution adapters and explanation generator, as state machines         *)
(* translated from the Python sources under src/app.                       *)
(***************************************************************************)
EXTENDS Integers, Sequences, FiniteSets, TLC

VARIABLES
    sq_pc,      \* sanitizer harness: "build" while the filter is assembled, "done" after the call
    sq_in,      \* the filter handed to sanitize_mongo_query
    sq_n,       \* number of nodes (atoms, dicts, lists) of sq_in
    sq_out,     \* what sanitize_mongo_query returned
    gen_pc,     \* query generator: "ready" before the call, "done" after it
    gen_call,   \* the call made: function name and arguments, with the model's reply
    gen_out,    \* outcome of the call: a returned value or a raised exception
    enable_cache,   \* settings.CACHE.ENABLE_CACHE
    redis_up,       \* whether the Redis server answers
    redis_db,       \* the store: key -> [bytes, expires]
    now,            \* the clock, in seconds
    cache_call,     \* the Cache call just made: [op, key, out], or NoCall
    last_set,       \* key -> arguments of the latest Cache.set made while the store answered
    pl_pc,      \* request pipeline: the step the request in hand has reached
    pl_req,     \* the request in hand: the handler called and its arguments
    pl_local,   \* what the handler has computed so far: schema, generated query, result
    pl_trace,   \* the steps the request has gone through, in order
    pl_sent,    \* the calls handed to a database engine for the request, in order
    pl_open,    \* connections, pools and clients opened for the request and not closed
    pl_out,     \* what the handler returned or raised
    ex_pc,      \* explanation generator: "ready" before the call, "done" after it
    ex_call,    \* the call made: the caller and the arguments, with the model's reply
    ex_out,     \* outcome of the call
    rv_pc,      \* request validator harness: "build" while the body is assembled, "done" after the check
    rv_body,    \* the parsed JSON body of the request
    rv_n,       \* number of nodes of rv_body
    rv_route,   \* is_mongodb_route: whether the path is the process_results route
    rv_out,     \* outcome of _check_for_malicious_patterns
    rc_pc,      \* two invocations of process_sql_query: the step each has reached
    rc_spec,    \* the local sql_query of each invocation
    rc_gen,     \* the query each invocation got from generate_sql_query, None when it made no call
    rc_exec,    \* the calls each invocation handed to the engine
    rc_writes   \* the Cache.set calls that stored a query, in the order they were made

sanVars == <<sq_pc, sq_in, sq_n, sq_out>>
genVars == <<gen_pc, gen_call, gen_out>>
cacheVars == <<enable_cache, redis_up, redis_db, now, cache_call, last_set>>
pipeVars == <<pl_pc, pl_req, pl_local, pl_trace, pl_sent, pl_open, pl_out>>
explVars == <<ex_pc, ex_call, ex_out>>
valVars == <<rv_pc, rv_body, rv_n, rv_route, rv_out>>
raceVars == <<rc_pc, rc_spec, rc_gen, rc_exec, rc_writes>>
vars == <<sanVars, genVars, cacheVars, pipeVars, explVars, valVars, raceVars>>

\* a component that takes no part in a run
SanIdle == sq_pc = "off" /\ sq_in = "off" /\ sq_n = 0 /\ sq_out = "off"
GenIdle == gen_pc = "off" /\ gen_call = "off" /\ gen_out = "off"
PipeIdle ==
    /\ pl_pc = "off" /\ pl_req = "off" /\ pl_local = "off" /\ pl_trace = <<>>
    /\ pl_sent = <<>> /\ pl_open = {} /\ pl_out = "off"
ExplIdle == ex_pc = "off" /\ ex_call = "off" /\ ex_out = "off"
ValIdle == rv_pc = "off" /\ rv_body = "off" /\ rv_n = 0 /\ rv_route = FALSE /\ rv_out = "off"
RaceIdle ==
    /\ rc_pc = "off" /\ rc_spec = "off" /\ rc_gen = "off" /\ rc_exec = "off" /\ rc_writes = <<>>
NoCall == [op |-> "none"]
CacheIdle ==
    /\ enable_cache = FALSE /\ redis_up = FALSE /\ redis_db = <<>>
    /\ now = 0 /\ cache_call = NoCall /\ last_set = <<>>

(***************************************************************************)
(* Python values.  A value is a pair <<tag, val>>: None, a str, an int, an *)
(* opaque leaf (atom), a dict (a function from its keys to values) or a    *)
(* list (a sequence).                                                      *)
(***************************************************************************)
PyNone == <<"none", "None">>
PyStr(x) == <<"str", x>>
PyInt(n) == <<"int", n>>
Atom(a) == <<"atom", a>>
Dict(f) == <<"dict", f>>
List(s) == <<"list", s>>
Tag(v) == v[1]
Val(v) == v[2]
EmptyDict == Dict(<<>>)
IsDict(v) == Tag(v) = "dict"
IsList(v) == Tag(v) = "list"
IsStr(v) == Tag(v) = "str"
IsInt(v) == Tag(v) = "int"
\* d.get(k, default) and d[k] = v on a dict held as a function
Get(d, k, default) == IF k \in DOMAIN d THEN d[k] ELSE default
Put(d, k, v) == [j \in DOMAIN d \cup {k} |-> IF j = k THEN v ELSE d[j]]
\* the outcome of a call: a returned value or a raised exception
Return(v) == [ok |-> TRUE, val |-> v]
Raise(e) == [ok |-> FALSE, val |-> PyStr(e)]

(***************************************************************************)
(* app/core/security.py: sanitize_mongo_query                              *)
(***************************************************************************)
dangerous_operators == {"$where", "$expr", "$function"}

\* a sanitizer that answers the value of a denied key when that value is a
\* dict, instead of dropping the key
sanitize_mongo_query_unwrapping(query_obj) ==
    LET denied == {k \in DOMAIN Val(query_obj) : k \in dangerous_operators /\ IsDict(Val(query_obj)[k])}
    IN IF denied # {} THEN Val(query_obj)[CHOOSE k \in denied : TRUE]
       ELSE Dict([key \in DOMAIN Val(query_obj) \ dangerous_operators |-> Val(query_obj)[key]])

\* a sanitizer whose list comprehension keeps only the items that are dicts
sanitize_mongo_query_dropping_items(query_obj) ==
    Dict([key \in DOMAIN Val(query_obj) \ dangerous_operators |->
            LET value == Val(query_obj)[key] IN
            IF IsList(value) THEN List(SelectSeq(Val(value), IsDict)) ELSE value])

RECURSIVE sanitize_mongo_query(_)
sanitize_mongo_query(query_obj) ==
    Dict([key \in {k \in DOMAIN Val(query_obj) : k \notin dangerous_operators} |->
            LET value == Val(query_obj)[key] IN
            IF IsDict(value) THEN sanitize_mongo_query(value)
            ELSE IF IsList(value) THEN
                List([i \in DOMAIN Val(value) |->
                        IF IsDict(Val(value)[i])
                        THEN sanitize_mongo_query(Val(value)[i])
                        ELSE Val(value)[i]])
            ELSE value])

\* Does a key of the deny-list occur anywhere inside v?
RECURSIVE HasDangerousKey(_)
HasDangerousKey(v) ==
    IF IsDict(v) THEN
        \E k \in DOMAIN Val(v) : k \in dangerous_operators \/ HasDangerousKey(Val(v)[k])
    ELSE IF IsList(v) THEN
        \E i \in DOMAIN Val(v) : HasDangerousKey(Val(v)[i])
    ELSE FALSE

(***************************************************************************)
(* Harness of the sanitizer: a filter is assembled from the inside out by  *)
(* wrapping it in dicts and lists, then sanitize_mongo_query is applied.   *)
(***************************************************************************)
MaxNodes == 6
FilterKeys == {"$where", "$expr", "$function", "age"}
Atoms == {"x"}

SanInit ==
    /\ sq_pc = "build"
    /\ sq_in \in {Atom(a) : a \in Atoms} \cup {EmptyDict}
    /\ sq_n = 1
    /\ sq_out = PyNone

SanWrapDict ==
    /\ sq_pc = "build"
    /\ sq_n < MaxNodes
    /\ \E k \in FilterKeys : sq_in' = Dict(k :> sq_in)
    /\ sq_n' = sq_n + 1
    /\ UNCHANGED <<sq_pc, sq_out, genVars, cacheVars, pipeVars, explVars, valVars, raceVars>>

SanAddKey ==
    /\ sq_pc = "build"
    /\ IsDict(sq_in)
    /\ sq_n < MaxNodes
    /\ \E k \in FilterKeys \ DOMAIN Val(sq_in), a \in Atoms :
          sq_in' = Dict([j \in DOMAIN Val(sq_in) \cup {k} |->
                            IF j = k THEN Atom(a) ELSE Val(sq_in)[j]])
    /\ sq_n' = sq_n + 1
    /\ UNCHANGED <<sq_pc, sq_out, genVars, cacheVars, pipeVars, explVars, valVars, raceVars>>

SanWrapList ==
    /\ sq_pc = "build"
    /\ sq_n < MaxNodes
    /\ sq_in' = List(<<sq_in>>)
    /\ sq_n' = sq_n + 1
    /\ UNCHANGED <<sq_pc, sq_out, genVars, cacheVars, pipeVars, explVars, valVars, raceVars>>

SanAppend ==
    /\ sq_pc = "build"
    /\ IsList(sq_in)
    /\ sq_n < MaxNodes
    /\ \E a \in Atoms : sq_in' = List(Append(Val(sq_in), Atom(a)))
    /\ sq_n' = sq_n + 1
    /\ UNCHANGED <<sq_pc, sq_out, genVars, cacheVars, pipeVars, explVars, valVars, raceVars>>

\* The call itself: the callers pass a dict (a filter or a pipeline stage).
SanCall ==
    /\ sq_pc = "build"
    /\ IsDict(sq_in)
    /\ sq_out' = sanitize_mongo_query(sq_in)
    /\ sq_pc' = "done"
    /\ UNCHANGED <<sq_in, sq_n, genVars, cacheVars, pipeVars, explVars, valVars, raceVars>>

\* The call on a value that is no dict, as a pipeline stage may be:
\* query_obj.items() raises AttributeError.
SanCallOther ==
    /\ sq_pc = "build"
    /\ ~IsDict(sq_in)
    /\ sq_out' = Raise("AttributeError")
    /\ sq_pc' = "raised"
    /\ UNCHANGED <<sq_in, sq_n, genVars, cacheVars, pipeVars, explVars, valVars, raceVars>>

SanNext == SanWrapDict \/ SanAddKey \/ SanWrapList \/ SanAppend \/ SanCall \/ SanCallOther

SanitizeInit == SanInit /\ GenIdle /\ CacheIdle /\ PipeIdle /\ ExplIdle /\ ValIdle /\ RaceIdle
SpecSanitize == SanitizeInit /\ [][SanNext]_vars

\* C2: after sanitize_mongo_query no key of the deny-list survives at any depth.
C2_NoDangerousKeySurvives ==
    sq_pc = "done" => ~HasDangerousKey(sq_out)

(***************************************************************************)
(* Strings: str.lower(), `w in s`, str.endswith                            *)
(***************************************************************************)
UpperCase == <<"A", "B", "C", "D", "E", "F", "G", "H", "I", "J", "K", "L", "M",
               "N", "O", "P", "Q", "R", "S", "T", "U", "V", "W", "X", "Y", "Z">>
LowerCase == <<"a", "b", "c", "d", "e", "f", "g", "h", "i", "j", "k", "l", "m",
               "n", "o", "p", "q", "r", "s", "t", "u", "v", "w", "x", "y", "z">>
LowerCh(c) ==
    IF \E i \in DOMAIN UpperCase : UpperCase[i] = c
    THEN LowerCase[CHOOSE i \in DOMAIN UpperCase : UpperCase[i] = c]
    ELSE c

RECURSIVE Lower(_)
Lower(s) ==
    IF Len(s) = 0 THEN ""
    ELSE LowerCh(SubSeq(s, 1, 1)) \o Lower(SubSeq(s, 2, Len(s)))

\* Python's `w in s` for two strings
In(w, s) == \E i \in 1..(Len(s) - Len(w) + 1) : SubSeq(s, i, i + Len(w) - 1) = w
EndsWith(s, c) == Len(s) >= Len(c) /\ SubSeq(s, Len(s) - Len(c) + 1, Len(s)) = c

(***************************************************************************)
(* app/core/utils.py: Utils.determine_best_collection                      *)
(* A connection is [kind |-> "none"], [kind |-> "counts", counts |-> f]    *)
(* (estimated_document_count answers f[name]) or [kind |-> "raise"].       *)
(***************************************************************************)
query_themes == <<
    [theme |-> "usuarios",   keywords |-> <<"usuario", "user", "persona", "cliente", "correo", "email", "nombre">>],
    [theme |-> "productos",  keywords |-> <<"producto", "item", "artículo", "articulo", "mercancía", "mercancia">>],
    [theme |-> "ventas",     keywords |-> <<"venta", "compra", "transacción", "transaccion", "pedido", "orden">>],
    [theme |-> "servicios",  keywords |-> <<"servicio", "service", "prestación", "prestacion">>],
    [theme |-> "documentos", keywords |-> <<"documento", "archivo", "fichero", "file", "record">>],
    [theme |-> "mensajes",   keywords |-> <<"mensaje", "message", "correo", "notificación", "notificacion", "comunicación", "comunicacion">>],
    [theme |-> "registros",  keywords |-> <<"registro", "record", "log", "entrada", "history", "actividad">>] >>
general_terms == <<"base de datos", "base datos", "bbdd", "bd", "database", "db", "schema", "estructura">>
common_collections == <<"users", "customers", "clients", "accounts", "products", "orders", "items">>
central_names == <<"user", "customer", "client", "account", "main", "core">>

\* a direct mention that looks for the full name only
DirectMentionFullName(query_lower, available_collections) ==
    LET hits == {c \in DOMAIN available_collections :
                    In(Lower(available_collections[c]), query_lower)}
    IN IF hits = {} THEN 0 ELSE CHOOSE c \in hits : \A d \in hits : c <= d

\* 1. direct mention: index of the first collection named in the question, or 0
DirectMention(query_lower, available_collections) ==
    LET hit(c) ==
            LET collection_normalized == Lower(available_collections[c])
                collection_singular ==
                    IF EndsWith(collection_normalized, "s")
                    THEN SubSeq(collection_normalized, 1, Len(collection_normalized) - 1)
                    ELSE collection_normalized
            IN In(collection_normalized, query_lower) \/ In(collection_singular, query_lower)
        hits == {c \in DOMAIN available_collections : hit(c)}
    IN IF hits = {} THEN 0 ELSE CHOOSE c \in hits : \A d \in hits : c <= d

\* 2. theme scoring: themes by score descending (stable), first collection matching
theme_score(t, query_lower) ==
    Cardinality({k \in DOMAIN query_themes[t].keywords : In(query_themes[t].keywords[k], query_lower)})
ThemeMatch(query_lower, available_collections) ==
    LET scored == {t \in DOMAIN query_themes : theme_score(t, query_lower) > 0}
        before(t, u) == \/ theme_score(t, query_lower) > theme_score(u, query_lower)
                        \/ theme_score(t, query_lower) = theme_score(u, query_lower) /\ t <= u
        related(t, c) ==
            LET collection_lower == Lower(available_collections[c])
            IN \/ In(query_themes[t].theme, collection_lower)
               \/ \E k \in DOMAIN query_themes[t].keywords :
                     In(query_themes[t].keywords[k], collection_lower)
        pairs == {p \in scored \X (DOMAIN available_collections) : related(p[1], p[2])}
    IN IF pairs = {} THEN 0
       ELSE (CHOOSE p \in pairs : \A q \in pairs :
                \/ p[1] # q[1] /\ before(p[1], q[1])
                \/ p[1] = q[1] /\ p[2] <= q[2])[2]

\* 3. questions about the database itself: common collection names in priority order
CommonName(query_lower, available_collections) ==
    LET pairs == {p \in (DOMAIN common_collections) \X (DOMAIN available_collections) :
                     In(common_collections[p[1]], Lower(available_collections[p[2]]))}
    IN IF ~ \E g \in DOMAIN general_terms : In(general_terms[g], query_lower) THEN 0
       ELSE IF pairs = {} THEN 0
       ELSE (CHOOSE p \in pairs : \A q \in pairs :
                p[1] < q[1] \/ (p[1] = q[1] /\ p[2] <= q[2]))[2]

\* 4. the collection with most documents (sorted descending, stable); 0 when the
\*    connection is absent or a count lookup raises
MostDocuments(available_collections, db_connection) ==
    IF db_connection.kind # "counts" THEN 0
    ELSE LET count(c) == db_connection.counts[available_collections[c]]
         IN CHOOSE c \in DOMAIN available_collections :
               \A d \in DOMAIN available_collections :
                  count(c) > count(d) \/ (count(c) = count(d) /\ c <= d)

\* 5. first collection with a central-entity name, or 0
CentralName(available_collections) ==
    LET hits == {c \in DOMAIN available_collections :
                    \E n \in DOMAIN central_names :
                        In(central_names[n], Lower(available_collections[c]))}
    IN IF hits = {} THEN 0 ELSE CHOOSE c \in hits : \A d \in hits : c <= d

\* a selector that answers None when no stage finds a collection
determine_best_collection_no_default(query, available_collections, db_connection) ==
    IF Len(available_collections) = 0 THEN PyNone
    ELSE IF Len(available_collections) = 1 THEN PyStr(available_collections[1])
    ELSE LET query_lower == Lower(query)
             s1 == DirectMention(query_lower, available_collections)
             s2 == ThemeMatch(query_lower, available_collections)
             s3 == CommonName(query_lower, available_collections)
             s4 == MostDocuments(available_collections, db_connection)
             s5 == CentralName(available_collections)
             pick == IF s1 # 0 THEN s1 ELSE IF s2 # 0 THEN s2 ELSE IF s3 # 0 THEN s3
                     ELSE IF s4 # 0 THEN s4 ELSE s5
         IN IF pick = 0 THEN PyNone ELSE PyStr(available_collections[pick])

determine_best_collection(query, available_collections, db_connection) ==
    IF Len(available_collections) = 0 THEN PyNone
    ELSE IF Len(available_collections) = 1 THEN PyStr(available_collections[1])
    ELSE LET query_lower == Lower(query)
             s1 == DirectMention(query_lower, available_collections)
             s2 == ThemeMatch(query_lower, available_collections)
             s3 == CommonName(query_lower, available_collections)
             s4 == MostDocuments(available_collections, db_connection)
             s5 == CentralName(available_collections)
             pick == IF s1 # 0 THEN s1 ELSE IF s2 # 0 THEN s2 ELSE IF s3 # 0 THEN s3
                     ELSE IF s4 # 0 THEN s4 ELSE IF s5 # 0 THEN s5 ELSE 1
         IN PyStr(available_collections[pick])

(***************************************************************************)
(* More of str: strip, startswith, find, split on newline                  *)
(***************************************************************************)
Whitespace == {" ", "\n", "\t"}
StartsWith(s, c) == Len(s) >= Len(c) /\ SubSeq(s, 1, Len(c)) = c

RECURSIVE LStrip(_)
LStrip(s) ==
    IF Len(s) > 0 /\ SubSeq(s, 1, 1) \in Whitespace THEN LStrip(SubSeq(s, 2, Len(s))) ELSE s
RECURSIVE RStrip(_)
RStrip(s) ==
    IF Len(s) > 0 /\ SubSeq(s, Len(s), Len(s)) \in Whitespace
    THEN RStrip(SubSeq(s, 1, Len(s) - 1)) ELSE s
Strip(s) == RStrip(LStrip(s))

\* index of the first occurrence of w in s at or after position from, 0 when none
Find(w, s, from) ==
    LET hits == {i \in from..(Len(s) - Len(w) + 1) : SubSeq(s, i, i + Len(w) - 1) = w}
    IN IF hits = {} THEN 0 ELSE CHOOSE i \in hits : \A j \in hits : i <= j

\* the part of s before its first newline, and the part after it
FirstLine(s) ==
    LET n == Find("\n", s, 1) IN IF n = 0 THEN s ELSE SubSeq(s, 1, n - 1)
RestLines(s) ==
    LET n == Find("\n", s, 1) IN SubSeq(s, n + 1, Len(s))

(***************************************************************************)
(* app/core/querys.py: AIQuery.clean_sql_query                             *)
(***************************************************************************)
\* the markdown code fence (three backquotes); string literals cannot hold a
\* backquote, so "~~~" stands for it in every text of the model
Fence == "~~~"

\* re.search(r'```(?:tag)?(.*?)```', text, re.DOTALL): group 1, or the text
\* itself when there is no pair of fences
FencedBody(text, tag) ==
    LET open == Find(Fence, text, 1)
        body == IF open # 0 /\ StartsWith(SubSeq(text, open + 3, Len(text)), tag)
                THEN open + 3 + Len(tag) ELSE open + 3
        close == IF open = 0 THEN 0 ELSE Find(Fence, text, body)
        \* the optional tag is given back when no closing fence follows it
        close2 == IF open = 0 \/ close # 0 THEN close ELSE Find(Fence, text, open + 3)
        body2 == IF close # 0 THEN body ELSE open + 3
    IN IF open = 0 \/ close2 = 0 THEN text
       ELSE Strip(SubSeq(text, body2, close2 - 1))

\* re.sub(r'--.*$', '', s, flags=re.MULTILINE)
RECURSIVE DeleteLineComments(_)
DeleteLineComments(s) ==
    LET line == FirstLine(s)
        dash == Find("--", line, 1)
        kept == IF dash = 0 THEN line ELSE SubSeq(line, 1, dash - 1)
    IN IF Find("\n", s, 1) = 0 THEN kept
       ELSE kept \o "\n" \o DeleteLineComments(RestLines(s))

\* re.sub(r'/\*.*?\*/', '', s, flags=re.DOTALL)
RECURSIVE DeleteBlockComments(_)
DeleteBlockComments(s) ==
    LET open == Find("/*", s, 1)
        close == IF open = 0 THEN 0 ELSE Find("*/", s, open + 2)
    IN IF open = 0 \/ close = 0 THEN s
       ELSE SubSeq(s, 1, open - 1) \o DeleteBlockComments(SubSeq(s, close + 2, Len(s)))

\* '\n'.join(line.strip() for line in s.split('\n') if line.strip())
RECURSIVE JoinStrippedLines(_)
JoinStrippedLines(s) ==
    LET line == Strip(FirstLine(s))
        rest == IF Find("\n", s, 1) = 0 THEN "" ELSE JoinStrippedLines(RestLines(s))
    IN IF line = "" THEN rest
       ELSE IF rest = "" THEN line
       ELSE line \o "\n" \o rest

clean_sql_query(sql_query) ==
    LET unfenced ==
            IF StartsWith(sql_query, Fence) /\ EndsWith(sql_query, Fence)
            THEN Strip(SubSeq(sql_query, 4, Len(sql_query) - 3))
            ELSE IF In(Fence, sql_query) THEN FencedBody(sql_query, "sql")
            ELSE sql_query
        unprefixed ==
            IF StartsWith(Lower(unfenced), "sql")
            THEN Strip(SubSeq(unfenced, 4, Len(unfenced)))
            ELSE unfenced
    IN JoinStrippedLines(DeleteBlockComments(DeleteLineComments(unprefixed)))

(***************************************************************************)
(* app/models/database_query.py: MongoDBQuery                              *)
(* The constructor takes keyword arguments (a function from the names      *)
(* given to their values) and answers the object or raises.                *)
(***************************************************************************)
IsNone(v) == Tag(v) = "none"
Present(data, k) == k \in DOMAIN data /\ ~IsNone(data[k])

\* field types declared by the class (lines 26-37)
ValidFields(data) ==
    /\ "collection" \in DOMAIN data /\ IsStr(data["collection"])
    /\ "operation" \in DOMAIN data => IsStr(data["operation"])
    /\ "query" \in DOMAIN data => IsDict(data["query"])
    /\ "filter" \in DOMAIN data => IsDict(data["filter"])
    /\ "projection" \in DOMAIN data => IsNone(data["projection"]) \/ IsDict(data["projection"])
    /\ "sort" \in DOMAIN data =>
          \/ IsNone(data["sort"])
          \/ IsDict(data["sort"]) /\ \A k \in DOMAIN Val(data["sort"]) : IsInt(Val(data["sort"])[k])
    /\ "limit" \in DOMAIN data => IsNone(data["limit"]) \/ IsInt(data["limit"])
    /\ "skip" \in DOMAIN data => IsNone(data["skip"]) \/ IsInt(data["skip"])
    /\ "pipeline" \in DOMAIN data =>
          \/ IsNone(data["pipeline"])
          \/ IsList(data["pipeline"]) /\ \A i \in DOMAIN Val(data["pipeline"]) : IsDict(Val(data["pipeline"])[i])

MongoDBQuery(data) ==
    LET synced ==
            IF Present(data, "filter")
            THEN IF ~Present(data, "query") THEN Put(data, "query", data["filter"]) ELSE data
            ELSE IF Present(data, "query")
            THEN IF ~Present(data, "filter") THEN Put(data, "filter", data["query"]) ELSE data
            ELSE data
    IN IF "operation" \in DOMAIN synced /\ ~IsStr(synced["operation"])
       THEN Raise("AttributeError")          \* .lower() of a value that is not a str
       ELSE LET lowered ==
                    IF "operation" \in DOMAIN synced
                    THEN Put(synced, "operation", PyStr(Lower(Val(synced["operation"]))))
                    ELSE synced
            IN IF ~ValidFields(lowered) THEN Raise("ValidationError")
               ELSE Return(<<"MongoDBQuery",
                                    [collection |-> lowered["collection"],
                                     operation  |-> Get(lowered, "operation", PyStr("find")),
                                     query      |-> Get(lowered, "query", EmptyDict),
                                     filter     |-> Get(lowered, "filter", EmptyDict),
                                     projection |-> Get(lowered, "projection", PyNone),
                                     sort       |-> Get(lowered, "sort", PyNone),
                                     limit      |-> Get(lowered, "limit", PyNone),
                                     skip       |-> Get(lowered, "skip", PyNone),
                                     pipeline   |-> Get(lowered, "pipeline", PyNone)]>>)

(***************************************************************************)
(* The schema argument db_info and the model's reply                       *)
(* db_info is [tables, collections, big]: each of the two keys is absent,  *)
(* None, a dict keyed by name (Tables: its keys in insertion order) or a   *)
(* list of descriptions; big says that json.dumps(db_info) is longer than  *)
(* 10000 characters.                                                       *)
(***************************************************************************)
Absent == <<"absent", "absent">>
Tables(names) == <<"tables", names>>
TableList(names) == List([i \in DOMAIN names |-> Dict([name |-> PyStr(names[i])])])

HasKey(db_info, k) == Tag(db_info[k]) # "absent"
\* db_info.get(k, {})
GetOrEmpty(db_info, k) == IF HasKey(db_info, k) THEN db_info[k] ELSE Tables(<<>>)
\* list(v.keys()): only a dict has keys
Keys(v) == IF Tag(v) = "tables" THEN [ok |-> TRUE, val |-> Val(v)]
           ELSE [ok |-> FALSE, val |-> "AttributeError"]
Truthy(v) ==
    CASE Tag(v) = "none" -> FALSE
      [] Tag(v) = "str"  -> Val(v) # ""
      [] Tag(v) = "int"  -> Val(v) # 0
      [] Tag(v) = "bool" -> Val(v)
      [] Tag(v) = "dict" -> DOMAIN Val(v) # {}
      [] Tag(v) = "list" -> Len(Val(v)) > 0
      [] OTHER -> TRUE
SameValue(a, b) == Tag(a) = Tag(b) /\ Val(a) = Val(b)

\* The model call raises, or answers a message whose content is None or a text.
\* A text of the SQL generator is a str.  A text of the MongoDB generator is
\* Text(wrap, body): the JSON document body (Garbage when there is none) given
\* bare ("plain"), as a whole fenced block ("fenced"), as a fenced block inside
\* prose ("embedded"), after the word json ("prefixed") or inside prose without
\* fences ("prose").
ReplyRaises == [kind |-> "raise", content |-> PyNone]
ReplyContent(c) == [kind |-> "content", content |-> c]
Text(wrap, body) == <<"text", [wrap |-> wrap, body |-> body]>>
Garbage == <<"garbage", "garbage">>
IsText(v) == Tag(v) = "text"

(***************************************************************************)
(* app/core/querys.py: AIQuery.clean_json_response, then json.loads        *)
(***************************************************************************)
clean_json_response(response_text) ==
    IF Val(response_text).wrap \in {"fenced", "embedded", "prefixed"}
    THEN Text("plain", Val(response_text).body)
    ELSE response_text

json_loads(json_text) ==
    IF Val(json_text).wrap = "plain" /\ Tag(Val(json_text).body) # "garbage"
    THEN Return(Val(json_text).body)
    ELSE Raise("JSONDecodeError")

(***************************************************************************)
(* app/core/querys.py: AIQuery.generate_sql_query                          *)
(***************************************************************************)
\* a handler that names the last table of the schema
SqlFallbackLastTable(db_info) ==
    LET tables == Keys(GetOrEmpty(db_info, "tables"))
        safe_table == IF Len(tables.val) > 0 THEN tables.val[Len(tables.val)] ELSE "users"
    IN IF ~tables.ok THEN Raise(tables.val)
       ELSE Return(PyStr("SELECT * FROM " \o safe_table \o " LIMIT 10"))

\* lines 122-126, the except handler
SqlFallback(db_info) ==
    LET tables == Keys(GetOrEmpty(db_info, "tables"))
        safe_table == IF Len(tables.val) > 0 THEN tables.val[1] ELSE "users"
    IN IF ~tables.ok THEN Raise(tables.val)
       ELSE Return(PyStr("SELECT * FROM " \o safe_table \o " LIMIT 10"))

\* lines 52-69: the schema part of the prompt.  `big` stands for a serialized
\* schema of more than 10,000 characters; `omitted` is the number written in
\* the trailing note.
TruncatedTables == 5
SqlDbContext(db_info) ==
    LET tables == Keys(GetOrEmpty(db_info, "tables"))
    IN IF ~db_info.big
       THEN [ok |-> TRUE, truncated |-> FALSE, tables |-> <<>>, omitted |-> 0]
       ELSE IF ~tables.ok
       THEN [ok |-> FALSE, truncated |-> TRUE, tables |-> <<>>, omitted |-> 0]
       ELSE [ok |-> TRUE, truncated |-> TRUE,
             tables |-> IF Len(tables.val) > TruncatedTables        \* tables[:5]
                        THEN SubSeq(tables.val, 1, TruncatedTables) ELSE tables.val,
             omitted |-> Len(tables.val) - TruncatedTables]

generate_sql_query(query, db_info, engine, reply) ==
    \* lines 55-69: the context is cut down before the try block
    IF db_info.big /\ ~Keys(GetOrEmpty(db_info, "tables")).ok
    THEN Raise(Keys(GetOrEmpty(db_info, "tables")).val)
    \* lines 99-120
    ELSE IF reply.kind = "raise" THEN SqlFallback(db_info)
    ELSE IF ~IsStr(reply.content) THEN SqlFallback(db_info)     \* None.strip()
    ELSE Return(PyStr(clean_sql_query(Strip(Val(reply.content)))))

(***************************************************************************)
(* app/core/querys.py: AIQuery.generate_mongodb_query                      *)
(***************************************************************************)
\* lines 555-559
AvailableCollections(db_info) ==
    IF HasKey(db_info, "tables") THEN Keys(GetOrEmpty(db_info, "tables"))
    ELSE IF HasKey(db_info, "collections") THEN Keys(GetOrEmpty(db_info, "collections"))
    ELSE [ok |-> TRUE, val |-> <<>>]

\* lines 562-566
SelectedCollection(query, available_collections, collection_name, db_connection) ==
    IF Truthy(collection_name) THEN collection_name
    ELSE determine_best_collection(query, available_collections, db_connection)

\* a fallback that takes the first available collection whatever was selected
FallbackCollectionFirstAvailable(selected_collection, available_collections) ==
    IF Len(available_collections) > 0 THEN PyStr(available_collections[1])
    ELSE PyStr("users")

\* selected_collection or (available_collections[0] if available_collections else "users")
FallbackCollection(selected_collection, available_collections) ==
    IF Truthy(selected_collection) THEN selected_collection
    ELSE IF Len(available_collections) > 0 THEN PyStr(available_collections[1])
    ELSE PyStr("users")

\* lines 691-697
MongoFallback(selected_collection, available_collections) ==
    MongoDBQuery([collection |-> FallbackCollection(selected_collection, available_collections),
                  operation  |-> PyStr("find"),
                  query      |-> EmptyDict,
                  limit      |-> PyInt(10),
                  skip       |-> PyInt(0)])

\* lines 646-672, inside the try block
MongoFromReply(reply, selected_collection) ==
    IF reply.kind = "raise" THEN Raise("APIError")
    ELSE IF ~IsText(reply.content) THEN Raise("AttributeError")        \* None.strip()
    ELSE LET parsed == json_loads(clean_json_response(reply.content))
         IN IF ~parsed.ok THEN parsed
            ELSE IF ~IsDict(parsed.val) THEN Raise("AttributeError")   \* .get of a non-dict
            ELSE LET given == Get(Val(parsed.val), "collection", PyNone)
                     query_data ==
                         IF ~SameValue(given, selected_collection)
                         THEN Put(Val(parsed.val), "collection", selected_collection)
                         ELSE Val(parsed.val)
                 IN IF "collection" \notin DOMAIN query_data THEN Raise("KeyError")
                    ELSE MongoDBQuery(
                        [collection |-> query_data["collection"],
                         operation  |-> Get(query_data, "operation", PyStr("find")),
                         query      |-> Get(query_data, "query", EmptyDict),
                         pipeline   |-> Get(query_data, "pipeline", List(<<>>)),
                         projection |-> Get(query_data, "projection", PyNone),
                         sort       |-> Get(query_data, "sort", PyNone),
                         limit      |-> Get(query_data, "limit", PyInt(10)),
                         skip       |-> Get(query_data, "skip", PyInt(0))])

generate_mongodb_query(query, db_info, collection_name, db_connection, reply) ==
    LET available_collections == AvailableCollections(db_info)
    IN IF ~available_collections.ok THEN Raise(available_collections.val)   \* before the try block
       ELSE LET selected_collection ==
                    SelectedCollection(query, available_collections.val, collection_name, db_connection)
                mongo_query == MongoFromReply(reply, selected_collection)
            IN IF mongo_query.ok THEN mongo_query
               ELSE MongoFallback(selected_collection, available_collections.val)

(***************************************************************************)
(* app/core/querys copy.py: AIQuery.generate_mongodb_query, the variant    *)
(* that hands both `query` and `filter` to the constructor and answers a   *)
(* plain dict when the constructor refuses its arguments.                  *)
(***************************************************************************)
\* MongoDBQuery(**d), or d itself when the constructor raises
ObjectOrDict(d) == IF MongoDBQuery(d).ok THEN MongoDBQuery(d) ELSE Return(Dict(d))

\* lines 349-355
SyncQueryFilter(query_data) ==
    IF "query" \in DOMAIN query_data /\ "filter" \notin DOMAIN query_data
    THEN Put(query_data, "filter", query_data["query"])
    ELSE IF "filter" \in DOMAIN query_data /\ "query" \notin DOMAIN query_data
    THEN Put(query_data, "query", query_data["filter"])
    ELSE IF "query" \notin DOMAIN query_data /\ "filter" \notin DOMAIN query_data
    THEN Put(Put(query_data, "query", EmptyDict), "filter", EmptyDict)
    ELSE query_data

\* lines 337-394, inside the inner try block
MongoFromReplyCopy(reply, selected_collection) ==
    IF reply.kind = "raise" THEN Raise("APIError")
    ELSE IF ~IsText(reply.content) THEN Raise("AttributeError")
    ELSE LET parsed == json_loads(clean_json_response(reply.content))
         IN IF ~parsed.ok THEN parsed
            ELSE IF ~IsDict(parsed.val) THEN Raise("AttributeError")
            ELSE LET given == Get(Val(parsed.val), "collection", PyNone)
                     forced ==
                         IF ~SameValue(given, selected_collection)
                         THEN Put(Val(parsed.val), "collection", selected_collection)
                         ELSE Val(parsed.val)
                     query_data == SyncQueryFilter(forced)
                     mongo_query_dict ==
                         [collection |-> query_data["collection"],
                          operation  |-> Get(query_data, "operation", PyStr("find")),
                          query      |-> Get(query_data, "query", EmptyDict),
                          filter     |-> Get(query_data, "filter", EmptyDict),
                          pipeline   |-> Get(query_data, "pipeline", List(<<>>)),
                          projection |-> Get(query_data, "projection", PyNone),
                          sort       |-> Get(query_data, "sort", PyNone),
                          limit      |-> Get(query_data, "limit", PyInt(10)),
                          skip       |-> Get(query_data, "skip", PyInt(0))]
                 IN IF "collection" \notin DOMAIN query_data THEN Raise("KeyError")
                    ELSE ObjectOrDict(mongo_query_dict)

\* lines 411-430, the inner except handler
MongoFallbackCopy(selected_collection, available_collections) ==
    ObjectOrDict([collection |-> FallbackCollection(selected_collection, available_collections),
                  operation  |-> PyStr("find"),
                  query      |-> EmptyDict,
                  filter     |-> EmptyDict,
                  limit      |-> PyInt(10),
                  skip       |-> PyInt(0)])

\* lines 432-454, the outer except handler; it is reached with
\* available_collections still empty
MongoLastResortCopy(collection_name) ==
    ObjectOrDict([collection |-> IF Truthy(collection_name) THEN collection_name ELSE PyStr("users"),
                  operation  |-> PyStr("find"),
                  query      |-> EmptyDict,
                  filter     |-> EmptyDict,
                  limit      |-> PyInt(10)])

generate_mongodb_query_copy(query, db_info, collection_name, db_connection, reply) ==
    LET available_collections == AvailableCollections(db_info)
    IN IF ~available_collections.ok THEN MongoLastResortCopy(collection_name)
       ELSE LET selected_collection ==
                    SelectedCollection(query, available_collections.val, collection_name, db_connection)
                mongo_query == MongoFromReplyCopy(reply, selected_collection)
            IN IF mongo_query.ok THEN mongo_query
               ELSE MongoFallbackCopy(selected_collection, available_collections.val)

(***************************************************************************)
(* The generators under every schema argument and every model outcome      *)
(***************************************************************************)
Questions == {"show all users", "hello"}
Engines == {"sqlite", "mysql", "postgresql"}
CollectionNames == {PyNone, PyStr(""), PyStr("orders")}
DbInfos ==
    [tables      : {Absent, PyNone, Tables(<<>>), Tables(<<"users", "orders">>), TableList(<<"users">>)},
     collections : {Absent, Tables(<<"logs">>)},
     big         : BOOLEAN]
\* the schemas handed to the SQL generator: one of them has more tables than
\* the prompt keeps
SqlDbInfos ==
    DbInfos \cup
    [tables      : {Tables(<<"users", "orders", "items", "logs", "visits", "stock">>)},
     collections : {Absent},
     big         : BOOLEAN]
\* the collections the live database holds
CountedCollections == {"users", "orders", "logs", "Orders", "items", "visits", "stock"}
Connections ==
    {[kind |-> "none"], [kind |-> "raise"],
     [kind |-> "counts", counts |-> [c \in CountedCollections |-> IF c = "orders" THEN 2 ELSE 1]]}

SqlReplies ==
    {ReplyRaises, ReplyContent(PyNone)} \cup
    {ReplyContent(PyStr(t)) : t \in {"", "SELECT * FROM users LIMIT 100",
                                     "~~~sql\nSELECT name FROM users -- names\n~~~"}}

\* what the model may put under each key of its JSON answer
FieldChoices ==
    [collection : {Absent, PyStr("orders")},
     operation  : {Absent, PyStr("Aggregate"), PyInt(7)},
     query      : {Absent, PyNone, Dict([a |-> PyInt(1)]), PyStr("all")},
     filter     : {Absent, Dict([a |-> PyInt(1)]), Dict([b |-> PyInt(2)])},
     limit      : {Absent, PyInt(500), PyStr("many")},
     pipeline   : {Absent, List(<<Dict([k \in {"$match"} |-> EmptyDict])>>)}]
JsonObject(r) == Dict([k \in {k \in DOMAIN r : Tag(r[k]) # "absent"} |-> r[k]])
JsonAnswers == {JsonObject(r) : r \in FieldChoices} \cup {List(<<>>), PyInt(1), Garbage}
MongoReplies ==
    {ReplyRaises, ReplyContent(PyNone)} \cup
    {ReplyContent(Text("plain", b)) : b \in JsonAnswers} \cup
    {ReplyContent(Text(w, EmptyDict)) : w \in {"fenced", "embedded", "prefixed", "prose"}}

GenInit == gen_pc = "ready" /\ gen_call = "none" /\ gen_out = "none"

GenerateSql ==
    /\ gen_pc = "ready"
    /\ \E query \in Questions, db_info \in SqlDbInfos, engine \in Engines, reply \in SqlReplies :
          /\ gen_call' = [fn |-> "generate_sql_query", query |-> query, db_info |-> db_info,
                          engine |-> engine, reply |-> reply,
                          db_context |-> SqlDbContext(db_info)]
          /\ gen_out' = generate_sql_query(query, db_info, engine, reply)
    /\ gen_pc' = "done"
    /\ UNCHANGED <<sanVars, cacheVars, pipeVars, explVars, valVars, raceVars>>

GenerateMongodb ==
    /\ gen_pc = "ready"
    /\ \E query \in Questions, db_info \in DbInfos, collection_name \in CollectionNames,
          db_connection \in Connections, reply \in MongoReplies :
          /\ gen_call' = [fn |-> "generate_mongodb_query", query |-> query, db_info |-> db_info,
                          collection_name |-> collection_name, db_connection |-> db_connection,
                          reply |-> reply]
          /\ gen_out' = generate_mongodb_query(query, db_info, collection_name, db_connection, reply)
    /\ gen_pc' = "done"
    /\ UNCHANGED <<sanVars, cacheVars, pipeVars, explVars, valVars, raceVars>>

GenerateMongodbCopy ==
    /\ gen_pc = "ready"
    /\ \E query \in Questions, db_info \in DbInfos, collection_name \in CollectionNames,
          db_connection \in Connections, reply \in MongoReplies :
          /\ gen_call' = [fn |-> "generate_mongodb_query_copy", query |-> query, db_info |-> db_info,
                          collection_name |-> collection_name, db_connection |-> db_connection,
                          reply |-> reply]
          /\ gen_out' = generate_mongodb_query_copy(query, db_info, collection_name, db_connection, reply)
    /\ gen_pc' = "done"
    /\ UNCHANGED <<sanVars, cacheVars, pipeVars, explVars, valVars, raceVars>>

\* Utils.determine_best_collection called on its own.  A live connection
\* answers the document count of each collection at the time of the call.
AvailableLists ==
    {<<>>, <<"logs">>, <<"logs", "orders">>, <<"users", "orders">>, <<"Orders", "users">>}
SelectorQuestions == Questions \cup {"Orders of a user"}
LiveConnections ==
    {[kind |-> "counts", counts |-> [c \in CountedCollections |-> IF c = busiest THEN 2 ELSE 1]] :
        busiest \in {"orders", "logs"}}
DetermineBestCollection ==
    /\ gen_pc = "ready"
    /\ \E query \in SelectorQuestions, available_collections \in AvailableLists,
          db_connection \in Connections \cup LiveConnections :
          /\ gen_call' = [fn |-> "determine_best_collection", query |-> query,
                          available_collections |-> available_collections,
                          db_connection |-> db_connection]
          /\ gen_out' = Return(determine_best_collection(query, available_collections, db_connection))
    /\ gen_pc' = "done"
    /\ UNCHANGED <<sanVars, cacheVars, pipeVars, explVars, valVars, raceVars>>

(***************************************************************************)
(* app/services/db_service.py: get_sql_database_info, table by table, with *)
(* nothing in the cache.  Each table may fail in one of its three          *)
(* statements: the column query, the count, the sample.                    *)
(***************************************************************************)
TableFaults == {"none", "columns", "count", "sample"}
IntrospectedNames == <<"users", "orders", "items">>

\* the entry of one table: lines 323-354 (sqlite), 386-416 (mysql), 457-487
\* (postgresql); the count and the sample have a try block of their own
IntrospectedTable(table_name, fault) ==
    [name         |-> table_name,
     approx_count |-> IF fault = "count" THEN PyStr("desconocido") ELSE PyInt(1),
     sample       |-> IF fault = "sample" THEN EmptyDict ELSE Dict("id" :> PyStr("1"))]

\* the column query has no try block: its exception reaches the handler of
\* lines 514-521, which answers a schema without tables
IntrospectTables(engine, names, faults) ==
    IF \E i \in DOMAIN names : faults[i] = "columns"
    THEN [engine |-> engine, error |-> TRUE, tables |-> <<>>]
    ELSE [engine |-> engine, error |-> FALSE,
          tables |-> [i \in DOMAIN names |-> IntrospectedTable(names[i], faults[i])]]

GetSqlDatabaseInfo ==
    /\ gen_pc = "ready"
    /\ \E engine \in Engines, faults \in [DOMAIN IntrospectedNames -> TableFaults] :
          /\ gen_call' = [fn |-> "get_sql_database_info", engine |-> engine,
                          names |-> IntrospectedNames, faults |-> faults]
          /\ gen_out' = Return(IntrospectTables(engine, IntrospectedNames, faults))
    /\ gen_pc' = "done"
    /\ UNCHANGED <<sanVars, cacheVars, pipeVars, explVars, valVars, raceVars>>

(***************************************************************************)
(* app/core/cache.py: Cache.generate_key, for arguments that are str or    *)
(* None.  The parts are joined with ":" and hashed; MD5 is taken to be     *)
(* free of collisions, so the joined text stands for the key.  The harness *)
(* makes the keys of two requests from the question, the collection of the *)
(* request and the config id (db_service.py:565 and 772).                  *)
(***************************************************************************)
KeyPart(arg) == IF IsNone(arg) THEN "None" ELSE Val(arg)      \* str(arg)
RECURSIVE JoinParts(_)
JoinParts(args) ==
    IF Len(args) = 0 THEN ""
    ELSE ":" \o KeyPart(args[1]) \o JoinParts(SubSeq(args, 2, Len(args)))
generate_key(prefix, args) == prefix \o JoinParts(args)

KeyArguments ==
    {<<PyStr(question), collection_name, config_id>> :
        question \in {"hello", "hello:users"},
        collection_name \in {PyNone, PyStr("None"), PyStr("cfg1"), PyStr("users:cfg1")},
        config_id \in {PyNone, PyStr(""), PyStr("cfg1")}}

GenerateKeys ==
    /\ gen_pc = "ready"
    /\ \E first \in KeyArguments, second \in KeyArguments :
          /\ gen_call' = [fn |-> "generate_key", first |-> first, second |-> second]
          /\ gen_out' = Return(<<generate_key("sql_query", first), generate_key("sql_query", second)>>)
    /\ gen_pc' = "done"
    /\ UNCHANGED <<sanVars, cacheVars, pipeVars, explVars, valVars, raceVars>>

GenNext ==
    \/ GenerateSql \/ GenerateMongodb \/ GenerateMongodbCopy \/ DetermineBestCollection
    \/ GetSqlDatabaseInfo \/ GenerateKeys
GenerateInit == GenInit /\ SanIdle /\ CacheIdle /\ PipeIdle /\ ExplIdle /\ ValIdle /\ RaceIdle
SpecGenerate == GenerateInit /\ [][GenNext]_vars

\* C4: whatever the schema argument and the outcome of the model call,
\* generate_sql_query and generate_mongodb_query do not raise and do not
\* return None: the SQL generator answers a str, the MongoDB generator a
\* MongoDBQuery.
C4_GeneratorsNeverRaise ==
    gen_pc = "done" =>
        /\ gen_call.fn = "generate_sql_query" => gen_out.ok /\ IsStr(gen_out.val)
        /\ gen_call.fn = "generate_mongodb_query" =>
              gen_out.ok /\ Tag(gen_out.val) = "MongoDBQuery"

\* C5: every MongoDBQuery returned by generate_mongodb_query (either variant,
\* normal or fallback path, any combination of `query` and `filter` in the
\* model output) has filter equal to query.
C5_FilterEqualsQuery ==
    (/\ gen_pc = "done"
     /\ gen_call.fn \in {"generate_mongodb_query", "generate_mongodb_query_copy"}
     /\ gen_out.ok
     /\ Tag(gen_out.val) = "MongoDBQuery")
    => Val(gen_out.val).filter = Val(gen_out.val).query

(***************************************************************************)
(* app/core/cache.py: the Redis client and Cache.get / Cache.set           *)
(* A stored value is bytes <<encoding, payload>>: <<"raw", text>> is the   *)
(* UTF-8 of a str, <<"pickle", v>> is pickle.dumps(v).                     *)
(***************************************************************************)
PyBool(b) == <<"bool", b>>
CACHE_TTL == 3600
Nil == <<"nil", "nil">>

\* redis_client.get(key): the bytes under a live key, nil otherwise
StoreGet(up, db, t, key) ==
    IF ~up THEN Raise("ConnectionError")
    ELSE IF key \in DOMAIN db /\ t < db[key].expires THEN Return(db[key].bytes)
    ELSE Return(Nil)

\* redis_client.set(key, value, ex=ttl): the new store
StoreSet(db, t, key, bytes, ttl) ==
    [k \in DOMAIN db \cup {key} |->
        IF k = key THEN [bytes |-> bytes, expires |-> t + ttl] ELSE db[k]]

Digits == <<"0", "1", "2", "3", "4", "5", "6", "7", "8", "9">>
IsDigits(t) ==
    Len(t) > 0 /\ \A i \in 1..Len(t) : \E d \in DOMAIN Digits : Digits[d] = SubSeq(t, i, i)
RECURSIVE ParseInt(_)
ParseInt(t) ==
    IF Len(t) = 0 THEN 0
    ELSE 10 * ParseInt(SubSeq(t, 1, Len(t) - 1))
         + (CHOOSE d \in DOMAIN Digits : Digits[d] = SubSeq(t, Len(t), Len(t))) - 1

\* json.loads(value) on stored bytes.  Pickled bytes start with 0x80, which is
\* not UTF-8; of the raw texts, the JSON literals and unsigned integers parse
\* (the texts of this model hold no quoted string, array, object or fraction).
json_loads_bytes(value) ==
    IF value[1] = "pickle" THEN Raise("UnicodeDecodeError")
    ELSE LET text == Strip(value[2])
         IN IF text = "null" THEN Return(PyNone)
            ELSE IF text = "true" THEN Return(PyBool(TRUE))
            ELSE IF text = "false" THEN Return(PyBool(FALSE))
            ELSE IF IsDigits(text) THEN Return(PyInt(ParseInt(text)))
            ELSE Raise("JSONDecodeError")

\* pickle.loads(value): a raw text of this model is no pickle
pickle_loads(value) ==
    IF value[1] = "pickle" THEN Return(value[2]) ELSE Raise("UnpicklingError")

\* lines 134-147, the deserialisation inside the outer try
Deserialize(value) ==
    LET as_json == json_loads_bytes(value)
        as_pickle == pickle_loads(value)
    IN IF as_json.ok THEN as_json
       ELSE IF Val(as_json.val) \notin {"TypeError", "JSONDecodeError"} THEN as_json
       ELSE IF as_pickle.ok THEN as_pickle
       ELSE Return(PyStr(value[2]))                 \* value.decode('utf-8')

\* Cache.get as it would be without the handler of lines 148-150: an error of
\* the store leaves the call
Cache_get_unhandled(enabled, up, db, t, key, default) ==
    IF ~enabled THEN Return(default)
    ELSE LET value == StoreGet(up, db, t, key)
         IN IF ~value.ok THEN value
            ELSE IF value.val = Nil THEN Return(default)
            ELSE IF ~Deserialize(value.val).ok THEN Return(default)
            ELSE Deserialize(value.val)

Cache_get(enabled, up, db, t, key, default) ==
    IF ~enabled THEN Return(default)
    ELSE LET value == StoreGet(up, db, t, key)
         IN IF ~value.ok THEN Return(default)                   \* except Exception
            ELSE IF value.val = Nil THEN Return(default)
            ELSE IF ~Deserialize(value.val).ok THEN Return(default)   \* except Exception
            ELSE Deserialize(value.val)

\* lines 98-106: what is handed to redis_client.set
Serialize(value) ==
    IF Tag(value) = "MongoDBQuery"
    THEN Raise("AttributeError")          \* Utils.JSON has no CustomJSONEncoder
    ELSE IF Tag(value) \in {"str", "int", "bool", "none"} THEN Return(value)
    ELSE Return(<<"pickle", value>>)

\* str(n) of a natural number
RECURSIVE IntToStr(_)
IntToStr(n) == IF n < 10 THEN Digits[n + 1] ELSE IntToStr(n \div 10) \o Digits[(n % 10) + 1]

\* the bytes redis-py sends for a value: it encodes str and int, passes bytes
\* on and raises DataError for None and bool
Encode(value) ==
    IF Tag(value) = "pickle" THEN Return(value)
    ELSE IF IsStr(value) THEN Return(<<"raw", Val(value)>>)
    ELSE IF IsInt(value) THEN Return(<<"raw", IntToStr(Val(value))>>)
    ELSE Raise("DataError")

\* a Cache.set that leaves the entry of a key that is already there
Cache_set_if_absent(enabled, up, db, t, key, value, ttl) ==
    LET seconds == IF IsNone(ttl) THEN CACHE_TTL ELSE Val(ttl)
        bytes == Encode(Serialize(value).val)
    IN IF ~enabled \/ ~Serialize(value).ok \/ ~bytes.ok \/ ~up
       THEN [out |-> Return(PyBool(FALSE)), db |-> db]
       ELSE [out |-> Return(PyBool(TRUE)),
             db |-> IF key \in DOMAIN db THEN db ELSE StoreSet(db, t, key, bytes.val, seconds)]

\* Cache.set answers [out, db]: what it returns and the store it leaves
Cache_set(enabled, up, db, t, key, value, ttl) ==
    LET seconds == IF IsNone(ttl) THEN CACHE_TTL ELSE Val(ttl)
        serialized == Serialize(value)
        bytes == Encode(serialized.val)
        failed == [out |-> Return(PyBool(FALSE)), db |-> db]
    IN IF ~enabled THEN failed
       ELSE IF ~serialized.ok THEN failed                  \* except Exception
       ELSE IF ~bytes.ok \/ ~up THEN failed                \* except Exception
       ELSE [out |-> Return(PyBool(TRUE)), db |-> StoreSet(db, t, key, bytes.val, seconds)]

\* app/models/database_query.py: MongoDBQuery.model_dump (lines 59-70)
model_dump(mongo_query) ==
    LET result == Val(mongo_query)
    IN Dict(IF ~IsNone(result.query) THEN Put(result, "filter", result.query)
            ELSE IF ~IsNone(result.filter) THEN Put(result, "query", result.filter)
            ELSE result)

(***************************************************************************)
(* Cache.set and Cache.get called on a store that may go down, with a      *)
(* clock that advances                                                     *)
(***************************************************************************)
MaxTTL == 2
MaxClock == 3
CacheKeys == {generate_key("sql_query", <<PyStr("hello"), PyNone, PyStr("cfg1")>>),
              generate_key("nl_query", <<PyStr("hello"), PyStr("users"), PyNone>>)}
SafeQuery == MongoFallback(PyStr("users"), <<>>).val
CacheValues == {PyStr("SELECT * FROM users LIMIT 10"), model_dump(SafeQuery), SafeQuery}
TTLChoices == {PyNone} \cup {PyInt(n) : n \in 1..MaxTTL}

CacheInit ==
    /\ enable_cache \in BOOLEAN
    /\ redis_up = TRUE
    /\ redis_db = <<>>
    /\ now = 0
    /\ cache_call = NoCall
    /\ last_set = <<>>

CacheSetCall ==
    /\ \E key \in CacheKeys, value \in CacheValues, ttl \in TTLChoices :
          LET r == Cache_set(enable_cache, redis_up, redis_db, now, key, value, ttl)
          IN /\ redis_db' = r.db
             /\ cache_call' = [op |-> "set", key |-> key, out |-> r.out]
             /\ last_set' = IF enable_cache /\ redis_up
                            THEN Put(last_set, key,
                                     [value |-> value, at |-> now,
                                      ttl |-> IF IsNone(ttl) THEN CACHE_TTL ELSE Val(ttl)])
                            ELSE last_set
    /\ UNCHANGED <<enable_cache, redis_up, now, sanVars, genVars, pipeVars, explVars, valVars, raceVars>>

CacheGetCall ==
    /\ \E key \in CacheKeys :
          cache_call' = [op |-> "get", key |-> key,
                         out |-> Cache_get(enable_cache, redis_up, redis_db, now, key, PyNone)]
    /\ UNCHANGED <<enable_cache, redis_up, redis_db, now, last_set, sanVars, genVars, pipeVars, explVars, valVars, raceVars>>

CacheTick ==
    /\ now < MaxClock
    /\ now' = now + 1
    /\ cache_call' = NoCall
    /\ UNCHANGED <<enable_cache, redis_up, redis_db, last_set, sanVars, genVars, pipeVars, explVars, valVars, raceVars>>

RedisDown ==
    /\ redis_up
    /\ redis_up' = FALSE
    /\ cache_call' = NoCall
    /\ UNCHANGED <<enable_cache, redis_db, now, last_set, sanVars, genVars, pipeVars, explVars, valVars, raceVars>>

RedisUp ==
    /\ ~redis_up
    /\ redis_up' = TRUE
    /\ cache_call' = NoCall
    /\ UNCHANGED <<enable_cache, redis_db, now, last_set, sanVars, genVars, pipeVars, explVars, valVars, raceVars>>

CacheNext == CacheSetCall \/ CacheGetCall \/ CacheTick \/ RedisDown \/ RedisUp
CacheHarnessInit == CacheInit /\ SanIdle /\ GenIdle /\ PipeIdle /\ ExplIdle /\ ValIdle /\ RaceIdle
SpecCache == CacheHarnessInit /\ [][CacheNext]_vars

\* C7: with caching enabled and the store reachable, Cache.get(k) after
\* Cache.set(k, spec, ttl) returns spec while ttl has not elapsed, for an SQL
\* string and for a model_dump() dict, and the miss value once it has elapsed.
C7_GetAfterSetReturnsSpec ==
    (/\ cache_call.op = "get"
     /\ enable_cache /\ redis_up
     /\ cache_call.key \in DOMAIN last_set
     /\ Tag(last_set[cache_call.key].value) \in {"str", "dict"})
    => LET written == last_set[cache_call.key]
       IN IF now < written.at + written.ttl
          THEN cache_call.out = Return(written.value)
          ELSE cache_call.out = Return(PyNone)

(***************************************************************************)
(* app/core/permissions.py and the tables of app/core/config.py            *)
(***************************************************************************)
API_KEY_PERMISSION_LEVELS ==
    [read |-> {"read"}, write |-> {"read", "write"}, admin |-> {"read", "write", "admin"}]
COLLECTION_ACCESS ==
    [read  |-> {"products", "categories", "public_info"},
     write |-> {"products", "categories", "orders", "public_info"},
     admin |-> {"*"}]

check_api_key_permissions(api_key_level, required_permission) ==
    required_permission \in Get(API_KEY_PERMISSION_LEVELS, api_key_level, {})

\* A call of an `async def` function answers a coroutine object and runs none
\* of the body; awaiting the object runs the body and answers its result.
Coroutine(result) == <<"coroutine", result>>
Await(coroutine) == Val(coroutine)

check_collection_access(api_key_level, collection_name) ==
    LET allowed_collections == Get(COLLECTION_ACCESS, api_key_level, {})
    IN Coroutine(PyBool(\/ "*" \in allowed_collections
                        \/ IsStr(collection_name) /\ Val(collection_name) \in allowed_collections))

\* raises the PermissionError class of app.core.permissions
verify_permissions(api_key_level, required_permission, collection_name) ==
    IF ~check_api_key_permissions(api_key_level, required_permission)
    THEN Raise("permissions.PermissionError")
    ELSE IF Truthy(collection_name) /\ ~Truthy(check_collection_access(api_key_level, collection_name))
    THEN Raise("permissions.PermissionError")
    ELSE Return(PyNone)

(***************************************************************************)
(* The database server of a request: it refuses the connection, fails the  *)
(* query, or answers `rows` rows (documents) to the query it is given.     *)
(* A list of n rows is Rows(n); a Python tuple is Tuple(<<...>>).          *)
(***************************************************************************)
Rows(n) == <<"rows", n>>
Tuple(s) == <<"tuple", s>>
Min(a, b) == IF a < b THEN a ELSE b
Max(a, b) == IF a > b THEN a ELSE b
RowCounts == {0, 3, 250}
\* the text of the driver's exception when the server refuses or fails
ConnectErrors == {"localhost:27017: [Errno 111] Connection refused", "Authentication failed."}
QueryErrors == {"not authorized on shop to execute command", "No such collection"}
Servers ==
    {[fault |-> "none", rows |-> n, error |-> ""] : n \in RowCounts} \cup
    {[fault |-> "connect", rows |-> 0, error |-> e] : e \in ConnectErrors} \cup
    {[fault |-> "query", rows |-> 0, error |-> e] : e \in QueryErrors}

\* what an adapter did: its outcome, the connections, pools and clients it
\* opened and those it closed, and the calls it handed to the engine
Adapter(out, opened, closed, sent) ==
    [out |-> out, opened |-> opened, closed |-> closed, sent |-> sent]
EngineCall(op, arg) == [op |-> op, arg |-> arg]

(***************************************************************************)
(* app/core/querys.py: the SQL adapters                                    *)
(***************************************************************************)
execute_sqlite_query(sql_query, db_config, server) ==
    LET database_path == Get(Val(db_config), "database", PyStr(""))
        db == {"sqlite_connection"}
        call == <<EngineCall("sql", sql_query)>>
    IN IF ~Truthy(database_path) THEN Adapter(Raise("ValueError"), {}, {}, <<>>)
       ELSE IF server.fault = "connect" THEN Adapter(Raise("OperationalError"), {}, {}, <<>>)
       \* `async with` closes the connection on every way out of the block
       ELSE IF server.fault = "query" THEN Adapter(Raise("OperationalError"), db, db, call)
       ELSE Adapter(Return(Rows(server.rows)), db, db, call)

execute_mysql_query(sql_query, db_config, server) ==
    LET pool == {"mysql_pool"}
        call == <<EngineCall("sql", sql_query)>>
    IN IF server.fault = "connect" THEN Adapter(Raise("OperationalError"), {}, {}, <<>>)
       ELSE IF server.fault = "query" THEN Adapter(Raise("ProgrammingError"), pool, {}, call)
       \* line 285 returns from inside the blocks: lines 288-289 never run
       ELSE Adapter(Return(Rows(server.rows)), pool, {}, call)

execute_postgresql_query(sql_query, db_config, server) ==
    LET conn == {"postgresql_connection"}
        call == <<EngineCall("sql", sql_query)>>
    IN IF server.fault = "connect" THEN Adapter(Raise("ConnectionRefusedError"), {}, {}, <<>>)
       \* try/finally closes the connection
       ELSE IF server.fault = "query" THEN Adapter(Raise("PostgresError"), conn, conn, call)
       ELSE Adapter(Return(Rows(server.rows)), conn, conn, call)

SqlRowCap == 100

execute_sql_query(sql_query, db_config, server) ==
    LET engine == Lower(Val(Get(Val(db_config), "engine", PyStr(""))))
        adapter ==
            IF engine = "sqlite" THEN execute_sqlite_query(sql_query, db_config, server)
            ELSE IF engine = "mysql" THEN execute_mysql_query(sql_query, db_config, server)
            ELSE IF engine = "postgresql" THEN execute_postgresql_query(sql_query, db_config, server)
            ELSE Adapter(Raise("ValueError"), {}, {}, <<>>)
        result_data == Val(adapter.out.val)
    IN IF ~adapter.out.ok THEN adapter                                  \* line 206: raise
       ELSE [adapter EXCEPT !.out =
                Return(Tuple(<<Rows(IF result_data > SqlRowCap THEN SqlRowCap ELSE result_data),
                               Atom("execution_time")>>))]

(***************************************************************************)
(* app/core/querys.py: AIQuery.execute_mongodb_query                       *)
(* server.rows is the number of documents the filter matches (the number   *)
(* the pipeline yields, for an aggregation).                               *)
(***************************************************************************)
ToListLength == 100
IntOr(v, default) == IF IsInt(v) THEN Val(v) ELSE default

\* the text about a list of num_docs documents, lines 396-409 and 432-443
ResultExplanation(which, mongo_query, num_docs) ==
    IF num_docs = 0 THEN "The " \o which \o " did not return any documents."
    ELSE "The " \o which \o " returned " \o IntToStr(num_docs)
            \o (IF num_docs = 1 THEN " document." ELSE " documents.")
            \o (IF Truthy(mongo_query.projection) THEN " Selected fields: (fields)." ELSE "")
            \o (IF Truthy(mongo_query.sort)
                THEN " The results are sorted according to the specified criteria." ELSE "")
            \o (IF Truthy(mongo_query.limit)
                THEN " The search was limited to " \o IntToStr(Val(mongo_query.limit)) \o " documents."
                ELSE "")

\* lines 414-424: the stages appended to the pipeline of the query
AppendedStages(mongo_query) ==
    (IF Truthy(mongo_query.projection) THEN <<Dict("$project" :> mongo_query.projection)>> ELSE <<>>)
    \o (IF Truthy(mongo_query.sort) THEN <<Dict("$sort" :> mongo_query.sort)>> ELSE <<>>)
    \o (IF Truthy(mongo_query.limit) THEN <<Dict("$limit" :> mongo_query.limit)>> ELSE <<>>)
    \o (IF Truthy(mongo_query.skip) THEN <<Dict("$skip" :> mongo_query.skip)>> ELSE <<>>)

\* an exception raised with a message
RaiseWith(e, message) == [ok |-> FALSE, val |-> PyStr(e), message |-> message]

\* lines 517-530: the message of the ValueError raised for a driver error
MongoErrorExplanation(error_message) ==
    "Error executing MongoDB query: " \o error_message \o
    (IF In("Authentication failed", error_message)
     THEN " The login credentials are incorrect."
     ELSE IF In("not authorized", error_message)
     THEN " The user does not have sufficient permissions for this operation."
     ELSE IF In("No such collection", error_message)
     THEN " The specified collection does not exist in the database."
     ELSE "")

execute_mongodb_query(query_object, db_config, server) ==
    LET mongo_query == Val(query_object)
        client == {"mongo_client"}         \* line 369; no line closes it
        operation == Val(mongo_query.operation)
        filter == IF Truthy(mongo_query.filter) THEN mongo_query.filter ELSE EmptyDict
        limit == IntOr(mongo_query.limit, 0)
        skip == IntOr(mongo_query.skip, 0)
        \* lines 517-530: every exception leaves as a ValueError
        failed(sent, error_message) ==
            Adapter(RaiseWith("ValueError", MongoErrorExplanation(error_message)), client, {}, sent)
    IN IF operation = "find" THEN
           LET skipped == Max(server.rows - skip, 0)
               limited == IF limit # 0 THEN Min(limit, skipped) ELSE skipped
               num_docs == Min(limited, ToListLength)
               sent == <<EngineCall("find", filter)>>
           IN IF server.fault = "connect" THEN failed(<<>>, server.error)
              ELSE IF server.fault = "query" THEN failed(sent, server.error)
              ELSE Adapter(Return(Tuple(<<Rows(num_docs),
                                          PyStr(ResultExplanation("query", mongo_query, num_docs))>>)),
                           client, {}, sent)
       ELSE IF operation = "aggregate" THEN
           LET pipeline == (IF Truthy(mongo_query.pipeline) THEN Val(mongo_query.pipeline) ELSE <<>>)
                               \o AppendedStages(mongo_query)
               limited == IF limit # 0 THEN Min(limit, server.rows) ELSE server.rows
               skipped == Max(limited - skip, 0)
               num_docs == Min(skipped, ToListLength)
               sent == <<EngineCall("aggregate", List(pipeline))>>
           IN IF server.fault = "connect" THEN failed(<<>>, server.error)
              ELSE IF server.fault = "query" THEN failed(sent, server.error)
              ELSE Adapter(Return(Tuple(<<Rows(num_docs),
                                          PyStr(ResultExplanation("aggregation", mongo_query, num_docs))>>)),
                           client, {}, sent)
       ELSE IF operation = "findOne" THEN
           LET sent == <<EngineCall("find_one", filter)>>
           IN IF server.fault = "connect" THEN failed(<<>>, server.error)
              ELSE IF server.fault = "query" THEN failed(sent, server.error)
              ELSE IF server.rows = 0
              THEN Adapter(Return(Tuple(<<PyNone,
                        PyStr("No documents were found matching the search criteria.")>>)),
                        client, {}, sent)
              ELSE Adapter(Return(Tuple(<<Atom("document"),
                        PyStr("The requested document was found.")>>)), client, {}, sent)
       \* the document and update fields of the query are None: the driver
       \* refuses them with a TypeError before anything is sent
       ELSE IF operation \in {"insertOne", "updateOne"}
       THEN failed(<<>>, "document must be an instance of dict")
       ELSE IF operation = "deleteOne" THEN
           LET sent == <<EngineCall("delete_one", filter)>>
           IN IF server.fault = "connect" THEN failed(<<>>, server.error)
              ELSE IF server.fault = "query" THEN failed(sent, server.error)
              ELSE Adapter(Return(Tuple(<<Dict([deletedCount |-> PyInt(Min(server.rows, 1))]),
                        PyStr(IF server.rows = 0
                              THEN "No documents were found that matched the criteria for deletion."
                              ELSE "The document has been successfully deleted.")>>)),
                        client, {}, sent)
       \* line 515: operation not supported
       ELSE failed(<<>>, "MongoDB operation not supported: " \o operation)

(***************************************************************************)
(* app/services/db_service.py: execute_query and execute_aggregation, on   *)
(* the connection the service shares between its calls                     *)
(***************************************************************************)
QueryResult(data, count) == <<"QueryResult", [data |-> data, count |-> count]>>

execute_query(collection_name, query, api_key_level, limit, skip, server) ==
    IF ~Truthy(check_collection_access(api_key_level, collection_name))
    THEN Adapter(Raise("PermissionError"), {}, {}, <<>>)
    ELSE LET safe_query == sanitize_mongo_query(query)
             counted == <<EngineCall("count_documents", safe_query)>>
             \* to_list(length=limit) of a cursor with skip(skip).limit(limit)
             results == IF limit = 0 THEN 0 ELSE Min(limit, Max(server.rows - skip, 0))
         IN IF server.fault = "connect" THEN Adapter(Raise("ServerSelectionTimeoutError"), {}, {}, <<>>)
            ELSE IF server.fault = "query" THEN Adapter(Raise("OperationFailure"), {}, {}, counted)
            ELSE Adapter(Return(QueryResult(Rows(results), results)), {}, {},
                         counted \o <<EngineCall("find", safe_query)>>)

execute_aggregation(collection_name, pipeline, api_key_level, server) ==
    IF ~Truthy(check_collection_access(api_key_level, collection_name))
    THEN Adapter(Raise("PermissionError"), {}, {}, <<>>)
    ELSE LET safe_pipeline ==
                 List([i \in DOMAIN Val(pipeline) |-> sanitize_mongo_query(Val(pipeline)[i])])
             sent == <<EngineCall("aggregate", safe_pipeline)>>
         IN \* stage.items() of a stage that is no dict, outside the try
            IF \E i \in DOMAIN Val(pipeline) : ~IsDict(Val(pipeline)[i])
            THEN Adapter(Raise("AttributeError"), {}, {}, <<>>)
            ELSE IF server.fault = "connect" THEN Adapter(Raise("ServerSelectionTimeoutError"), {}, {}, <<>>)
            ELSE IF server.fault = "query" THEN Adapter(Raise("OperationFailure"), {}, {}, sent)
            \* to_list(length=None): every document
            ELSE Adapter(Return(QueryResult(Rows(server.rows), server.rows)), {}, {}, sent)

(***************************************************************************)
(* app/services/db_service.py: get_sql_database_info.  It answers          *)
(* [out, db]: the schema, as the generators read it, and the store it      *)
(* leaves.  A server that answers holds the tables users and orders.       *)
(***************************************************************************)
SchemaInfo(tables) == [tables |-> tables, collections |-> Absent, big |-> FALSE]
SchemaTTL == 600

get_sql_database_info(db_config, enabled, up, db, t, server) ==
    LET config == Val(db_config)
        engine == Lower(Val(Get(config, "engine", PyStr(""))))
        cache_key == generate_key("sql_schema", <<Get(config, "host", PyStr("")),
                                                  Get(config, "database", PyStr("")),
                                                  Get(config, "config_id", PyStr(""))>>)
        cached_info == Cache_get(enabled, up, db, t, cache_key, PyNone)
        failed == [out |-> Return(SchemaInfo(Tables(<<>>))), db |-> db]       \* lines 514-521
        found(tables) ==
            [out |-> Return(SchemaInfo(tables)),
             db  |-> Cache_set(enabled, up, db, t, cache_key, Dict(SchemaInfo(tables)),
                               PyInt(SchemaTTL)).db]
    IN IF ~cached_info.ok THEN [out |-> cached_info, db |-> db]
       ELSE IF Truthy(cached_info.val) THEN [out |-> Return(Val(cached_info.val)), db |-> db]
       ELSE IF engine \in {"sqlite", "mysql", "postgresql"} THEN
            IF engine = "sqlite" /\ ~Truthy(Get(config, "database", PyStr(""))) THEN failed
            ELSE IF server.fault # "none" THEN failed
            ELSE found(Tables(<<"users", "orders">>))
       ELSE found(Tables(<<>>))

(***************************************************************************)
(* Language detection and the model's reply to an explanation request      *)
(***************************************************************************)
Detections == {"raise", "en", "es"}
ExplanationReplies ==
    {ReplyRaises, ReplyContent(PyNone), ReplyContent(PyInt(42))} \cup
    {ReplyContent(PyStr(t)) : t \in {"", "3 found.", "Three documents were found in the collection."}}

(***************************************************************************)
(* app/core/querys.py: AIQuery.generate_sql_result_explanation.  Of the    *)
(* fallback text only the first sentence is kept.                          *)
(***************************************************************************)
generate_sql_result_explanation(query, sql_query, result, detected, reply) ==
    IF Val(result).count = 0 THEN Return(PyStr("No records were found that match your query."))
    ELSE IF detected = "raise" THEN Raise("LangDetectException")         \* line 995
    ELSE IF reply.kind = "raise"
    THEN Return(PyStr(IntToStr(Val(result).count) \o " records were found in the database."))
    ELSE Return(reply.content)

(***************************************************************************)
(* app/core/querys.py: AIQuery.generate_result_explanation                 *)
(* A result is ExplainedResult(data, count, fields, query_time_ms): fields *)
(* are the keys of the first document of data.                             *)
(***************************************************************************)
ExplainedResult(data, count, fields, query_time_ms) ==
    <<"QueryResult", [data |-> data, count |-> count, fields |-> fields,
                      query_time_ms |-> query_time_ms]>>

RECURSIVE Join(_, _)
Join(sep, parts) ==
    IF Len(parts) = 0 THEN ""
    ELSE IF Len(parts) = 1 THEN parts[1]
    ELSE parts[1] \o sep \o Join(sep, SubSeq(parts, 2, Len(parts)))

\* lines 873-904, the except handler
FallbackExplanation(collection, operation, result, fields_in_results) ==
    LET count == IntToStr(result.count)
        base ==
            IF operation = "findOne"
            THEN "The requested document was found in the " \o collection \o " collection."
            ELSE IF operation = "aggregate"
            THEN "Aggregation on collection " \o collection \o " returned " \o count \o " results."
            ELSE IF operation = "insertOne"
            THEN "A new document has been successfully inserted into the " \o collection \o " collection."
            ELSE IF operation = "updateOne"
            THEN "A document in the " \o collection \o " collection has been successfully updated."
            ELSE IF operation = "deleteOne"
            THEN "A document has been successfully deleted from the " \o collection \o " collection."
            ELSE count \o " documents were found in the " \o collection \o " collection."
        fields ==
            IF Len(fields_in_results) = 0 THEN ""
            ELSE " Fields present in the results include: "
                    \o Join(", ", SubSeq(fields_in_results, 1, Min(5, Len(fields_in_results))))
                    \o (IF Len(fields_in_results) > 5
                        THEN " and " \o IntToStr(Len(fields_in_results) - 5) \o " more."
                        ELSE ".")
        time ==
            IF result.query_time_ms > 0
            THEN " The query was executed in " \o IntToStr(result.query_time_ms) \o ".0 ms."
            ELSE ""
    IN IF result.count = 0
       THEN "No documents were found in the collection " \o collection \o " that match your query."
       ELSE base \o fields \o time

generate_result_explanation(query, mongo_query, query_result, detected, reply) ==
    LET result == Val(query_result)
        mongo_query_dict ==
            IF Tag(mongo_query) = "MongoDBQuery" THEN Val(model_dump(mongo_query)) ELSE Val(mongo_query)
        collection == Val(Get(mongo_query_dict, "collection", PyStr("")))
        operation == Val(Get(mongo_query_dict, "operation", PyStr("find")))
        pipeline == Get(mongo_query_dict, "pipeline", List(<<>>))
        sample_is_empty == Tag(result.data) = "rows" /\ Val(result.data) = 0
        fields_in_results == IF result.count > 0 THEN result.fields ELSE <<>>
    IN \* line 768: result_sample[0] of an empty list
       IF result.count > 0 /\ sample_is_empty THEN Raise("IndexError")
       \* line 797: `for stage in pipeline`, then list(stage.keys())[0]
       ELSE IF operation = "aggregate" /\ ~IsList(pipeline) THEN Raise("TypeError")
       ELSE IF operation = "aggregate" /\ \E i \in DOMAIN Val(pipeline) :
                    IsDict(Val(pipeline)[i]) /\ DOMAIN Val(Val(pipeline)[i]) = {}
       THEN Raise("IndexError")
       \* line 816: detect(query) outside any try
       ELSE IF detected = "raise" THEN Raise("LangDetectException")
       \* lines 849-904
       ELSE IF reply.kind = "raise"
       THEN Return(PyStr(FallbackExplanation(collection, operation, result, fields_in_results)))
       ELSE Return(reply.content)

(***************************************************************************)
(* app/routers/database.py: the default explanations and the checks of     *)
(* process_sdk_query around the two explanation generators                 *)
(***************************************************************************)
ResultCount(result_data) ==
    IF Tag(result_data) = "rows" THEN Val(result_data)
    ELSE IF Tag(result_data) = "tuple" THEN Len(Val(result_data))
    ELSE IF Truthy(result_data) THEN 1 ELSE 0

generate_default_explanation(sql_query, result_data) ==
    LET sql_lower == Lower(Val(sql_query))
        result_count == IntToStr(ResultCount(result_data))
    IN IF In("select", sql_lower) THEN
            IF In("join", sql_lower) THEN
                IF ResultCount(result_data) = 0
                THEN "No se encontraron resultados que relacionen las tablas (tablas)."
                ELSE IF In("where", sql_lower)
                THEN "Se encontraron " \o result_count \o " registros que cumplen con los criterios especificados, relacionando información de las tablas (tablas)."
                ELSE "Se obtuvieron " \o result_count \o " registros relacionando información de las tablas (tablas)."
            ELSE IF In("where", sql_lower) THEN
                IF ResultCount(result_data) = 0
                THEN "No se encontraron registros que cumplan con los criterios de búsqueda."
                ELSE "Se encontraron " \o result_count \o " registros que cumplen con los criterios de búsqueda."
            ELSE "La consulta devolvió " \o result_count \o " registros de la base de datos."
       ELSE "Se ejecutó la consulta y se obtuvieron " \o result_count \o " resultados."

generate_default_mongo_explanation(mongo_query, result_data) ==
    LET collection == Val(Val(mongo_query).collection)
        operation == Val(Val(mongo_query).operation)
        result_count == ResultCount(result_data)
    IN IF operation = "find" THEN
            IF result_count = 0
            THEN "No se encontraron documentos en " \o collection \o " que coincidan con los criterios de búsqueda."
            ELSE "Se encontraron " \o IntToStr(result_count) \o " documentos en " \o collection \o " que coinciden con los criterios de búsqueda."
       ELSE IF operation = "findOne" THEN
            IF Truthy(result_data) THEN "Se encontró el documento solicitado en " \o collection \o "."
            ELSE "No se encontró ningún documento en " \o collection \o " que coincida con los criterios de búsqueda."
       ELSE IF operation = "aggregate"
       THEN "La agregación en " \o collection \o " devolvió " \o IntToStr(result_count) \o " resultados."
       ELSE IF operation = "insertOne"
       THEN "Se ha insertado correctamente un nuevo documento en " \o collection \o "."
       ELSE IF operation = "updateOne"
       THEN "Se ha actualizado correctamente un documento en " \o collection \o "."
       ELSE IF operation = "deleteOne"
       THEN "Se ha eliminado correctamente un documento de " \o collection \o "."
       ELSE "Se ejecutó la operación " \o operation \o " y se obtuvieron " \o IntToStr(result_count) \o " resultados."

MinExplanationLength == 10

\* lines 255-268
SdkSqlExplanation(question, sql_query, query_result, result_data, detected, reply) ==
    LET explanation == generate_sql_result_explanation(question, sql_query, query_result, detected, reply)
    IN IF ~explanation.ok THEN PyStr(generate_default_explanation(sql_query, result_data))
       ELSE IF ~IsStr(explanation.val) \/ Len(Val(explanation.val)) < MinExplanationLength
       THEN PyStr(generate_default_explanation(sql_query, result_data))
       ELSE explanation.val

\* lines 358-372
SdkMongoExplanation(question, mongo_query, query_result, result_data, detected, reply) ==
    LET explanation == generate_result_explanation(question, mongo_query, query_result, detected, reply)
    IN IF ~explanation.ok THEN PyStr(generate_default_mongo_explanation(mongo_query, result_data))
       ELSE IF ~IsStr(explanation.val) \/ Len(Val(explanation.val)) < MinExplanationLength
       THEN PyStr(generate_default_mongo_explanation(mongo_query, result_data))
       ELSE explanation.val

(***************************************************************************)
(* Requests.  One request is in hand at a time; the Redis server goes down *)
(* and comes back at any moment.  A handler that waits on the schema, the  *)
(* cache, the model or the database takes one step per wait.               *)
(***************************************************************************)
Levels == {"read", "write", "admin", "guest"}
RequestCollections == {PyNone, PyStr("orders")}
Filters ==
    {EmptyDict, Dict("age" :> PyInt(1)), Dict("$where" :> PyStr("js")),
     Dict("$or" :> List(<<List(<<Dict("$where" :> PyStr("js"))>>)>>))}
Pipelines ==
    {List(<<>>), List(<<Dict("$match" :> Dict("$expr" :> PyStr("js")))>>),
     List(<<Dict("$function" :> PyStr("js")), Dict("$match" :> EmptyDict)>>),
     List(<<Dict("$match" :> EmptyDict), PyStr("$count")>>)}
DefaultLimit == 100
Limits == {0, 10, DefaultLimit, 500}
Skips == {0, 5}

SqlConfig(engine, database) ==
    Dict([type |-> PyStr("sql"), engine |-> PyStr(engine), database |-> PyStr(database)])
MongoConfig == Dict([type |-> PyStr("nosql"), engine |-> PyStr("mongodb"), database |-> PyStr("shop")])
SqlConfigs ==
    {SqlConfig("sqlite", "app.db"), SqlConfig("sqlite", ""), SqlConfig("MySQL", "shop"),
     SqlConfig("postgresql", "shop"), SqlConfig("oracle", "shop")}

NoRequest == [fn |-> "none"]
NoReply == [kind |-> "none", content |-> PyNone]
NoLocals == [db_info |-> PyNone, spec |-> PyNone, result |-> PyNone, reply |-> NoReply]

PipeInit ==
    /\ pl_pc = "idle"
    /\ pl_req = NoRequest
    /\ pl_local = NoLocals
    /\ pl_trace = <<>>
    /\ pl_sent = <<>>
    /\ pl_open = {}
    /\ pl_out = PyNone

\* the request is answered: the next one may come
NextRequest ==
    /\ pl_pc = "done"
    /\ pl_pc' = "idle"
    /\ pl_req' = NoRequest
    /\ pl_local' = NoLocals
    /\ pl_trace' = <<>>
    /\ pl_sent' = <<>>
    /\ pl_open' = {}
    /\ pl_out' = PyNone
    /\ cache_call' = NoCall
    /\ UNCHANGED <<enable_cache, redis_up, redis_db, now, last_set, sanVars, genVars, explVars, valVars, raceVars>>

\* a handler that runs from its call to its return in one step
Handled(request, steps, adapter) ==
    /\ pl_req' = request
    /\ pl_trace' = steps
    /\ pl_sent' = adapter.sent
    /\ pl_open' = adapter.opened \ adapter.closed
    /\ pl_out' = adapter.out
    /\ pl_local' = NoLocals
    /\ pl_pc' = "done"
    /\ UNCHANGED <<cacheVars, sanVars, genVars, explVars, valVars, raceVars>>

\* the steps of execute_query and execute_aggregation
ServiceSteps(adapter) ==
    <<"permission">>
    \o (IF adapter.out = Raise("PermissionError") THEN <<>> ELSE <<"sanitize">>)
    \o (IF Len(adapter.sent) > 0 THEN <<"engine">> ELSE <<>>)
AdapterSteps(adapter) == IF Len(adapter.sent) > 0 THEN <<"engine">> ELSE <<>>

\* db_service.execute_query
ExecuteQuery ==
    /\ pl_pc = "idle"
    /\ \E api_key_level \in Levels, collection_name \in RequestCollections \ {PyNone},
          query \in Filters, limit \in Limits, skip \in Skips, server \in Servers :
          LET adapter == execute_query(collection_name, query, api_key_level, limit, skip, server)
          IN Handled([fn |-> "execute_query", api_key_level |-> api_key_level,
                      collection_name |-> collection_name, query |-> query,
                      limit |-> limit, skip |-> skip, server |-> server],
                     ServiceSteps(adapter), adapter)

\* db_service.execute_aggregation
ExecuteAggregation ==
    /\ pl_pc = "idle"
    /\ \E api_key_level \in Levels, collection_name \in RequestCollections \ {PyNone},
          pipeline \in Pipelines, server \in Servers :
          LET adapter == execute_aggregation(collection_name, pipeline, api_key_level, server)
          IN Handled([fn |-> "execute_aggregation", api_key_level |-> api_key_level,
                      collection_name |-> collection_name, pipeline |-> pipeline,
                      server |-> server],
                     ServiceSteps(adapter), adapter)

\* AIQuery.execute_sql_query
SqlTexts == {PyStr("SELECT * FROM users"), PyStr("SELECT * FROM users LIMIT 500")}
ExecuteSqlQuery ==
    /\ pl_pc = "idle"
    /\ \E sql_query \in SqlTexts, db_config \in SqlConfigs, server \in Servers :
          LET adapter == execute_sql_query(sql_query, db_config, server)
          IN Handled([fn |-> "execute_sql_query", sql_query |-> sql_query,
                      db_config |-> db_config, server |-> server],
                     AdapterSteps(adapter), adapter)

\* AIQuery.execute_mongodb_query, on the queries the constructor builds
QueryObjects ==
    {MongoDBQuery([collection |-> PyStr("orders"), operation |-> PyStr(operation),
                   filter |-> filter, limit |-> limit, skip |-> skip, pipeline |-> pipeline]).val :
        operation \in {"find", "aggregate", "findOne", "insertOne", "updateOne", "deleteOne", "count"},
        filter \in {EmptyDict, Dict("$where" :> PyStr("js"))},
        limit \in {PyNone, PyInt(0), PyInt(500)},
        skip \in {PyNone, PyInt(5)},
        pipeline \in {PyNone, List(<<Dict("$match" :> Dict("$expr" :> PyStr("js")))>>)}}
\* lines 414-424: `pipeline = mongo_query.pipeline or []` is the list of the
\* query itself when that list is not empty, and the stages are appended to
\* it in place; this is the query object as the call leaves it
MongoQueryAfterExecute(query_object) ==
    LET mongo_query == Val(query_object)
    IN IF Val(mongo_query.operation) = "aggregate" /\ Truthy(mongo_query.pipeline)
       THEN <<"MongoDBQuery",
              [mongo_query EXCEPT !.pipeline =
                  List(Val(mongo_query.pipeline) \o AppendedStages(mongo_query))]>>
       ELSE query_object

ExecuteMongodbQuery ==
    /\ pl_pc = "idle"
    /\ \E mongo_query \in QueryObjects, server \in Servers :
          LET adapter == execute_mongodb_query(mongo_query, MongoConfig, server)
          IN Handled([fn |-> "execute_mongodb_query", mongo_query |-> mongo_query,
                      db_config |-> MongoConfig, server |-> server,
                      mongo_query_after |-> MongoQueryAfterExecute(mongo_query)],
                     AdapterSteps(adapter), adapter)

(***************************************************************************)
(* app/services/db_service.py: process_natural_language_query and          *)
(* process_sql_query                                                       *)
(***************************************************************************)
AIQueryResponse(explanation, result, error) ==
    <<"AIQueryResponse", [explanation |-> explanation, result |-> result, error |-> error]>>
SqlCacheTTL == 3600
PipeSqlReplies == {ReplyRaises, ReplyContent(PyStr("~~~sql\nSELECT name FROM users -- names\n~~~"))}

\* one step of a handler that is still running
Step(pc, local, step, out) ==
    /\ pl_pc' = pc
    /\ pl_local' = local
    /\ pl_trace' = Append(pl_trace, step)
    /\ pl_out' = out
    /\ UNCHANGED pl_req
\* the step that ends the handler
Finish(step, out) == Step("done", pl_local, step, out)

\* lines 721-769, and lines 549-559 of process_sql_query
ProcessNaturalLanguageQuery ==
    /\ pl_pc = "idle"
    /\ \E api_key_level \in Levels, collection_name \in RequestCollections,
          db_config \in {PyNone, MongoConfig, SqlConfig("sqlite", "app.db"),
                         SqlConfig("oracle", "shop")} :
          LET permitted == verify_permissions(api_key_level, "read", PyNone)
              denied == /\ Truthy(collection_name)
                        /\ ~Truthy(check_collection_access(api_key_level, collection_name))
              is_sql == /\ Truthy(db_config)
                        /\ "type" \in DOMAIN Val(db_config)
                        /\ Val(db_config)["type"] = PyStr("sql")
          IN /\ pl_req' = [fn |-> "process_natural_language_query", query |-> "hello",
                           api_key_level |-> api_key_level, collection_name |-> collection_name,
                           config_id |-> PyStr("cfg1"), db_config |-> db_config]
             /\ pl_trace' = <<"permission">>
             /\ pl_pc' = IF permitted.ok /\ ~denied /\ is_sql THEN "sql_schema" ELSE "done"
             /\ pl_out' = IF ~permitted.ok THEN permitted
                          ELSE IF denied THEN Raise("PermissionError")
                          ELSE IF is_sql THEN PyNone
                          \* get_database_info(collection_name): the function takes no argument
                          ELSE Raise("TypeError")
    /\ UNCHANGED <<pl_local, pl_sent, pl_open, cacheVars, sanVars, genVars, explVars, valVars, raceVars>>

\* line 562
SqlSchema ==
    /\ pl_pc = "sql_schema"
    /\ \E server \in Servers :
          LET info == get_sql_database_info(pl_req.db_config, enable_cache, redis_up, redis_db,
                                            now, server)
          IN /\ redis_db' = info.db
             /\ IF info.out.ok
                THEN Step("sql_cache_get", [pl_local EXCEPT !.db_info = info.out.val], "schema", pl_out)
                ELSE Finish("schema", info.out)
    /\ cache_call' = NoCall
    /\ UNCHANGED <<pl_sent, pl_open, enable_cache, redis_up, now, last_set, sanVars, genVars, explVars, valVars, raceVars>>

SqlCacheKey ==
    generate_key("sql_query", <<PyStr(pl_req.query), pl_req.collection_name, pl_req.config_id>>)

\* lines 565-580
SqlCacheGet ==
    /\ pl_pc = "sql_cache_get"
    /\ LET cached_response == Cache_get(enable_cache, redis_up, redis_db, now, SqlCacheKey, PyNone)
       IN /\ cache_call' = [op |-> "get", key |-> SqlCacheKey, out |-> cached_response,
                            up |-> redis_up]
          /\ IF ~cached_response.ok THEN Finish("cache_get", cached_response)
             ELSE IF Truthy(cached_response.val)
             THEN Step("sql_execute", [pl_local EXCEPT !.spec = cached_response.val], "cache_get", pl_out)
             ELSE Step("sql_generate", pl_local, "cache_get", pl_out)
    /\ UNCHANGED <<pl_sent, pl_open, enable_cache, redis_up, redis_db, now, last_set,
                   sanVars, genVars, explVars, valVars, raceVars>>

\* line 583
SqlGenerate ==
    /\ pl_pc = "sql_generate"
    /\ \E reply \in PipeSqlReplies :
          LET engine == Lower(Val(Get(Val(pl_req.db_config), "engine", PyStr(""))))
              sql_query == generate_sql_query(pl_req.query, pl_local.db_info, engine, reply)
          IN IF sql_query.ok
             THEN Step("sql_cache_set", [pl_local EXCEPT !.spec = sql_query.val, !.reply = reply],
                       "generate", pl_out)
             ELSE Finish("generate", sql_query)
    /\ UNCHANGED <<pl_sent, pl_open, cacheVars, sanVars, genVars, explVars, valVars, raceVars>>

\* line 586
SqlCacheSet ==
    /\ pl_pc = "sql_cache_set"
    /\ LET stored == Cache_set(enable_cache, redis_up, redis_db, now, SqlCacheKey, pl_local.spec,
                               PyInt(SqlCacheTTL))
       IN /\ redis_db' = stored.db
          /\ cache_call' = [op |-> "set", key |-> SqlCacheKey, out |-> stored.out, up |-> redis_up]
          /\ IF stored.out.ok THEN Step("sql_execute", pl_local, "cache_set", pl_out)
             ELSE Finish("cache_set", stored.out)
    /\ UNCHANGED <<pl_sent, pl_open, enable_cache, redis_up, now, last_set, sanVars, genVars, explVars, valVars, raceVars>>

\* the response of lines 649-695
SqlErrorResponse ==
    AIQueryResponse(PyStr("Se produjo un error al ejecutar la consulta SQL"),
                    QueryResult(Rows(0), 0), TRUE)

\* lines 589-604
SqlExecute ==
    /\ pl_pc = "sql_execute"
    /\ \E server \in Servers :
          LET adapter == execute_sql_query(pl_local.spec, pl_req.db_config, server)
              result_data == Val(adapter.out.val)[1]
          IN /\ pl_sent' = pl_sent \o adapter.sent
             /\ pl_open' = pl_open \cup (adapter.opened \ adapter.closed)
             /\ IF adapter.out.ok
                THEN Step("sql_explain",
                          [pl_local EXCEPT !.result = QueryResult(result_data, Val(result_data))],
                          "engine", pl_out)
                ELSE Finish("engine", Return(SqlErrorResponse))
    /\ UNCHANGED <<cacheVars, sanVars, genVars, explVars, valVars, raceVars>>

\* lines 606-647: an explanation that is not a str fails the validation of
\* the response, inside the try block
SqlExplain ==
    /\ pl_pc = "sql_explain"
    /\ \E detected \in Detections, reply \in ExplanationReplies :
          LET explanation == generate_sql_result_explanation(PyStr(pl_req.query), pl_local.spec,
                                                             pl_local.result, detected, reply)
          IN IF explanation.ok /\ IsStr(explanation.val)
             THEN Finish("explain", Return(AIQueryResponse(explanation.val, pl_local.result, FALSE)))
             ELSE Finish("explain", Return(SqlErrorResponse))
    /\ UNCHANGED <<pl_sent, pl_open, cacheVars, sanVars, genVars, explVars, valVars, raceVars>>

(***************************************************************************)
(* app/routers/database.py: process_sdk_query (POST /sdk/query)            *)
(* The body gives question, db_schema and collection_name; db_schema is    *)
(* None or Schema(type, engine, info).  The handler answers a response     *)
(* body or raises the HTTPException of a status.                           *)
(***************************************************************************)
Schema(type, engine, info) == <<"schema", [type |-> type, engine |-> engine, info |-> info]>>
SdkSchemas ==
    {PyNone} \cup
    {Schema(type, engine, [tables |-> tables, collections |-> Absent, big |-> FALSE]) :
        type \in {"sql", "MongoDB", "graph"}, engine \in {"", "sqlite"},
        tables \in {Tables(<<"users", "orders">>), TableList(<<"users">>)}}
HTTPException(status) == Raise("HTTP " \o status)
SdkResponse(query, result, explanation) ==
    <<"response", [query |-> query, result |-> result, explanation |-> explanation]>>

PipeMongoReplies ==
    {ReplyRaises} \cup
    {ReplyContent(Text("plain", JsonObject(r))) :
        r \in [collection : {PyStr("orders")},
               operation  : {PyStr("find"), PyStr("aggregate")},
               query      : {Dict("$where" :> PyStr("js")), Dict("age" :> PyInt(1))},
               limit      : {Absent, PyInt(500)},
               pipeline   : {Absent, List(<<Dict("$match" :> Dict("$expr" :> PyStr("js")))>>)}]}

\* lines 304-309
SdkDefaultCollection(collection_name, info) ==
    IF Truthy(collection_name) \/ ~HasKey(info, "tables") THEN collection_name
    ELSE IF Tag(info.tables) = "tables" /\ Len(Val(info.tables)) > 0
    THEN PyStr(Val(info.tables)[1])
    ELSE IF IsList(info.tables) /\ Len(Val(info.tables)) > 0
    THEN Get(Val(Val(info.tables)[1]), "name", PyNone)
    ELSE collection_name

\* lines 134-224 and 299-309, 399-413
ProcessSdkQuery ==
    /\ pl_pc = "idle"
    /\ \E api_key_level \in Levels, question \in {PyStr(""), PyStr("hello")},
          db_schema \in SdkSchemas, collection_name \in {PyNone, PyStr("orders")},
          key_config \in {PyNone, MongoConfig, SqlConfig("MySQL", "shop")},
          body_config \in {PyNone, MongoConfig} :
          LET permitted == verify_permissions(api_key_level, "write", PyNone)
              db_type == Lower(Val(db_schema).type)
              schema_engine == Lower(Val(db_schema).engine)
              engine == IF schema_engine # "" THEN schema_engine
                        ELSE Val(Get(Val(key_config), "engine", PyStr("generic")))
              route ==
                  IF ~permitted.ok THEN [pc |-> "done", out |-> HTTPException("403")]
                  ELSE IF ~Truthy(question) \/ ~Truthy(db_schema)
                  THEN [pc |-> "done", out |-> HTTPException("400")]
                  ELSE IF ~Truthy(key_config) /\ ~Truthy(body_config)
                  THEN [pc |-> "done", out |-> HTTPException("400")]
                  \* line 211: the key's metadata holds no db_config
                  ELSE IF ~Truthy(key_config) THEN [pc |-> "done", out |-> HTTPException("500")]
                  ELSE IF db_type = "sql" THEN [pc |-> "sdk_generate_sql", out |-> PyNone]
                  ELSE IF db_type \in {"nosql", "mongodb"}
                  THEN [pc |-> "sdk_generate_mongo", out |-> PyNone]
                  ELSE [pc |-> "done", out |-> Return(SdkResponse(PyNone, PyNone,
                            PyStr("Tipo de base de datos no soportado: " \o db_type
                                  \o ". Verifica la configuración de tu SDK.")))]
          IN /\ pl_req' = [fn |-> "process_sdk_query", api_key_level |-> api_key_level,
                           question |-> question, db_schema |-> db_schema,
                           collection_name |->
                               IF route.pc = "sdk_generate_mongo"
                               THEN SdkDefaultCollection(collection_name, Val(db_schema).info)
                               ELSE collection_name,
                           engine |-> IF route.pc = "sdk_generate_sql" THEN engine ELSE "",
                           db_config |-> key_config]
             /\ pl_trace' = <<"permission">>
             /\ pl_pc' = route.pc
             /\ pl_out' = route.out
    /\ UNCHANGED <<pl_local, pl_sent, pl_open, cacheVars, sanVars, genVars, explVars, valVars, raceVars>>

\* line 227; any exception of lines 226-289 leaves as a ValueError (line 297)
SdkGenerateSql ==
    /\ pl_pc = "sdk_generate_sql"
    /\ \E reply \in PipeSqlReplies :
          LET sql_query == generate_sql_query(Val(pl_req.question), Val(pl_req.db_schema).info,
                                              pl_req.engine, reply)
          IN IF sql_query.ok
             THEN Step("sdk_execute_sql", [pl_local EXCEPT !.spec = sql_query.val], "generate", pl_out)
             ELSE Finish("generate", HTTPException("400"))
    /\ UNCHANGED <<pl_sent, pl_open, cacheVars, sanVars, genVars, explVars, valVars, raceVars>>

\* lines 238-252
SdkExecuteSql ==
    /\ pl_pc = "sdk_execute_sql"
    /\ \E server \in Servers :
          LET adapter == execute_sql_query(pl_local.spec, pl_req.db_config, server)
          IN /\ pl_sent' = pl_sent \o adapter.sent
             /\ pl_open' = pl_open \cup (adapter.opened \ adapter.closed)
             /\ IF adapter.out.ok
                THEN Step("sdk_explain_sql", [pl_local EXCEPT !.result = adapter.out.val],
                          "engine", pl_out)
                ELSE Finish("engine", HTTPException("400"))
    /\ UNCHANGED <<cacheVars, sanVars, genVars, explVars, valVars, raceVars>>

\* lines 254-289
SdkExplainSql ==
    /\ pl_pc = "sdk_explain_sql"
    /\ \E detected \in Detections, reply \in ExplanationReplies :
          LET result_data == pl_local.result
              rows == Val(result_data)[1]
              explanation == SdkSqlExplanation(pl_req.question, pl_local.spec,
                                               QueryResult(rows, Val(rows)), result_data,
                                               detected, reply)
          IN Finish("explain", Return(SdkResponse(pl_local.spec, result_data, explanation)))
    /\ UNCHANGED <<pl_sent, pl_open, cacheVars, sanVars, genVars, explVars, valVars, raceVars>>

\* line 313; any exception of lines 312-390 leaves as a ValueError (line 397)
SdkGenerateMongo ==
    /\ pl_pc = "sdk_generate_mongo"
    /\ \E reply \in PipeMongoReplies :
          LET mongo_query == generate_mongodb_query(Val(pl_req.question), Val(pl_req.db_schema).info,
                                                    pl_req.collection_name, [kind |-> "none"], reply)
          IN IF mongo_query.ok
             THEN Step("sdk_execute_mongo", [pl_local EXCEPT !.spec = mongo_query.val],
                       "generate", pl_out)
             ELSE Finish("generate", HTTPException("400"))
    /\ UNCHANGED <<pl_sent, pl_open, cacheVars, sanVars, genVars, explVars, valVars, raceVars>>

\* lines 324-339
SdkExecuteMongo ==
    /\ pl_pc = "sdk_execute_mongo"
    /\ \E server \in Servers :
          LET adapter == execute_mongodb_query(pl_local.spec, pl_req.db_config, server)
          IN /\ pl_sent' = pl_sent \o adapter.sent
             /\ pl_open' = pl_open \cup (adapter.opened \ adapter.closed)
             /\ IF adapter.out.ok
                THEN Step("sdk_explain_mongo",
                          [pl_local EXCEPT !.result = Val(adapter.out.val)[1]], "engine", pl_out)
                ELSE Finish("engine", HTTPException("400"))
    /\ UNCHANGED <<cacheVars, sanVars, genVars, explVars, valVars, raceVars>>

\* lines 341-390
SdkExplainMongo ==
    /\ pl_pc = "sdk_explain_mongo"
    /\ \E detected \in Detections, reply \in ExplanationReplies :
          LET result_data == pl_local.result
              query_result == ExplainedResult(result_data, ResultCount(result_data), <<>>, 0)
              explanation == SdkMongoExplanation(pl_req.question, pl_local.spec, query_result,
                                                 result_data, detected, reply)
          IN Finish("explain", Return(SdkResponse(model_dump(pl_local.spec), result_data, explanation)))
    /\ UNCHANGED <<pl_sent, pl_open, cacheVars, sanVars, genVars, explVars, valVars, raceVars>>

(***************************************************************************)
(* app/routers/database.py: natural_language_query (POST /query), the      *)
(* handler around db_service.process_natural_language_query                *)
(***************************************************************************)
\* lines 99-122: the exception handlers of the route
RouteError(outcome) ==
    IF Val(outcome.val) = "permissions.PermissionError" THEN HTTPException("403")
    ELSE IF Val(outcome.val) = "ValueError" THEN HTTPException("400")
    ELSE HTTPException("500")

\* lines 85-122; `response` is the outcome of process_natural_language_query.
\* The PermissionError of the handlers is the class of app.core.permissions:
\* the builtin one raised by db_service falls to the last handler.
natural_language_query(api_key_level, response) ==
    IF ~verify_permissions(api_key_level, "read", PyNone).ok THEN HTTPException("403")
    ELSE IF response.ok THEN response
    ELSE RouteError(response)

(***************************************************************************)
(* app/core/querys.py: AIQuery.process_collections_query                   *)
(***************************************************************************)
\* lines 1264-1289: the except handler logs and the function ends, answering None
process_collections_query(question, db_schema, reply) ==
    IF reply.kind = "raise" \/ ~IsText(reply.content) THEN Return(PyNone)
    ELSE LET query_data == json_loads(clean_json_response(reply.content))
         IN IF query_data.ok THEN query_data ELSE Return(PyNone)

(***************************************************************************)
(* app/routers/database.py: identify_query_collections                     *)
(* (POST /sdk/query/identify-collections)                                  *)
(***************************************************************************)
CollectionsSchema == Dict([type |-> PyStr("MongoDB"), database |-> PyStr("shop"),
                           total_collections |-> PyInt(2),
                           collection_names |-> List(<<PyStr("users"), PyStr("orders")>>)])
CollectionsReplies ==
    {ReplyRaises, ReplyContent(PyNone), ReplyContent(Text("plain", Garbage)),
     ReplyContent(Text("fenced", List(<<PyStr("orders")>>)))}

identify_query_collections(api_key_level, question, db_schema, reply) ==
    LET permitted == verify_permissions(api_key_level, "read", PyNone)
        explanation == process_collections_query(question, Val(db_schema)["collection_names"], reply)
    IN IF ~permitted.ok THEN HTTPException("403")
       \* lines 807-811: db_schema['type'] of None, or of a dict without the key
       ELSE IF ~IsDict(db_schema) THEN HTTPException("500")
       ELSE IF {"type", "database", "total_collections", "collection_names"} \ DOMAIN Val(db_schema) # {}
       THEN HTTPException("500")
       ELSE IF ~Truthy(question) THEN HTTPException("400")
       \* lines 841-842: the handler logs, and the function ends without a return
       ELSE IF ~explanation.ok THEN Return(PyNone)
       ELSE Return(SdkResponse(question, PyNone, explanation.val))

IdentifyQueryCollections ==
    /\ pl_pc = "idle"
    /\ \E api_key_level \in Levels, question \in {PyStr(""), PyStr("hello")},
          db_schema \in {PyNone, EmptyDict, CollectionsSchema}, reply \in CollectionsReplies :
          /\ pl_req' = [fn |-> "identify_query_collections", api_key_level |-> api_key_level,
                        question |-> question, db_schema |-> db_schema, reply |-> reply]
          /\ pl_out' = identify_query_collections(api_key_level, question, db_schema, reply)
    /\ pl_trace' = <<"permission">>
    /\ pl_pc' = "done"
    /\ UNCHANGED <<pl_local, pl_sent, pl_open, cacheVars, sanVars, genVars, explVars, valVars, raceVars>>

(***************************************************************************)
(* app/routers/database.py: process_query_results (POST /sdk/query/explain)*)
(* The body gives the question, the executed query (a dict holding `sql`,  *)
(* a dict naming a collection and an operation, or anything else) and the  *)
(* rows of the result.                                                     *)
(***************************************************************************)
\* generate_default_mongo_explanation on a dict: getattr finds neither
\* `collection` nor `operation`, so the defaults of lines 514-515 apply
DefaultMongoExplanationOfDict(result_data) ==
    IF ResultCount(result_data) = 0
    THEN "No se encontraron documentos en la colección que coincidan con los criterios de búsqueda."
    ELSE "Se encontraron " \o IntToStr(ResultCount(result_data))
         \o " documentos en la colección que coinciden con los criterios de búsqueda."

\* lines 715-782; of the text of a join only the count is kept
enrich_explanation(question, query, result, is_sql_query) ==
    LET n == IntToStr(ResultCount(result))
        sql_text == Lower(Val(Get(Val(query), "sql", PyStr(""))))
        collection == Val(Get(Val(query), "collection", PyStr("documentos")))
        operation == Val(Get(Val(query), "operation", PyStr("find")))
    IN IF is_sql_query THEN
           IF In("count", sql_text) /\ ~In("group by", sql_text)
           THEN "Se realizó un conteo que devolvió 0 registros."
           ELSE IF In("join", sql_text)
           THEN "Se encontraron " \o n \o " registros que cumplen con los criterios especificados."
           ELSE IF In("group by", sql_text)
           THEN "Se realizó una agrupación de datos que devolvió " \o n \o " grupos diferentes."
           ELSE "La consulta devolvió " \o n \o " registros de la base de datos."
       ELSE IF IsDict(query) /\ operation = "find"
       THEN "Se buscaron documentos en la colección " \o collection \o " y se encontraron "
            \o n \o " resultados."
       ELSE IF IsDict(query) /\ operation = "findOne"
       THEN "Se buscó un documento específico en la colección " \o collection \o "."
       ELSE IF IsDict(query) /\ operation = "aggregate"
       THEN "Se realizó una agregación en la colección " \o collection \o " que devolvió "
            \o n \o " resultados."
       ELSE "La consulta devolvió " \o n \o " documentos de la base de datos."

process_query_results(api_key_level, question, query, result, detected, reply) ==
    LET permitted == verify_permissions(api_key_level, "read", PyNone)
        is_sql_query == IsDict(query) /\ "sql" \in DOMAIN Val(query)
        count == ResultCount(result)
        sql_query == Get(Val(query), "sql", PyStr(""))
        sql_explanation ==
            generate_sql_result_explanation(question, sql_query, QueryResult(result, count),
                                            detected, reply)
        mongo_explanation ==
            generate_result_explanation(question, query, ExplainedResult(result, count, <<>>, 0),
                                        detected, reply)
        valid(e) == IsStr(e) /\ Len(Val(e)) >= MinExplanationLength
        explanation ==
            IF is_sql_query THEN
                \* lines 617-627, and the handler of lines 653-656
                IF ~sql_explanation.ok
                THEN PyStr(enrich_explanation(question, query, result, is_sql_query))
                ELSE IF valid(sql_explanation.val) THEN sql_explanation.val
                ELSE PyStr(generate_default_explanation(sql_query, result))
            \* lines 630-652: query.get of a value that is no dict raises inside the try
            ELSE IF IsDict(query) /\ mongo_explanation.ok /\ valid(mongo_explanation.val)
            THEN mongo_explanation.val
            ELSE PyStr(DefaultMongoExplanationOfDict(result))
    IN IF ~permitted.ok THEN HTTPException("403")
       ELSE IF ~Truthy(question) \/ ~Truthy(query) THEN HTTPException("400")
       ELSE Return(SdkResponse(query, result, explanation))

ExecutedQueries ==
    {PyNone, PyStr("db.orders.find()"),
     Dict([sql |-> PyStr("SELECT name FROM users")]),
     Dict([collection |-> PyStr("orders"), operation |-> PyStr("find")])}

ProcessQueryResults ==
    /\ pl_pc = "idle"
    /\ \E api_key_level \in Levels, question \in {PyStr(""), PyStr("hello")},
          query \in ExecutedQueries, result \in {Rows(0), Rows(3)},
          detected \in Detections, reply \in ExplanationReplies :
          /\ pl_req' = [fn |-> "process_query_results", api_key_level |-> api_key_level,
                        question |-> question, query |-> query, result |-> result]
          /\ pl_out' = process_query_results(api_key_level, question, query, result, detected, reply)
    /\ pl_trace' = <<"permission", "explain">>
    /\ pl_pc' = "done"
    /\ UNCHANGED <<pl_local, pl_sent, pl_open, cacheVars, sanVars, genVars, explVars, valVars, raceVars>>

PipeNext ==
    \/ ExecuteQuery \/ ExecuteAggregation \/ ExecuteSqlQuery \/ ExecuteMongodbQuery
    \/ ProcessNaturalLanguageQuery
    \/ SqlSchema \/ SqlCacheGet \/ SqlGenerate \/ SqlCacheSet \/ SqlExecute \/ SqlExplain
    \/ ProcessSdkQuery
    \/ SdkGenerateSql \/ SdkExecuteSql \/ SdkExplainSql
    \/ SdkGenerateMongo \/ SdkExecuteMongo \/ SdkExplainMongo
    \/ IdentifyQueryCollections \/ ProcessQueryResults
    \/ NextRequest \/ RedisDown \/ RedisUp
PipelineInit == PipeInit /\ CacheInit /\ SanIdle /\ GenIdle /\ ExplIdle /\ ValIdle /\ RaceIdle
SpecPipeline == PipelineInit /\ [][PipeNext]_vars

(***************************************************************************)
(* The explanation generator under every query, result, detection outcome  *)
(* and model reply: called on its own, and as the explanation step of      *)
(* process_sdk_query                                                       *)
(***************************************************************************)
ExplainedQueries ==
    {MongoDBQuery([collection |-> PyStr("orders"), operation |-> PyStr(operation),
                   pipeline |-> pipeline]).val :
        operation \in {"find", "aggregate"},
        pipeline \in {PyNone, List(<<EmptyDict>>), List(<<Dict("$match" :> EmptyDict)>>)}}
ResultFields == {<<>>, <<"name", "age">>}
QueryTimes == {0, 12}
DocumentCounts == {0, 3}

ExplInit == ex_pc = "ready" /\ ex_call = "none" /\ ex_out = "none"

\* AIQuery.generate_result_explanation, given the query as an object or as a dict
ExplainResult ==
    /\ ex_pc = "ready"
    /\ \E query_object \in ExplainedQueries, as_dict \in BOOLEAN,
          count \in DocumentCounts, length \in DocumentCounts,
          fields \in ResultFields, query_time_ms \in QueryTimes,
          detected \in Detections, reply \in ExplanationReplies :
          LET mongo_query == IF as_dict THEN model_dump(query_object) ELSE query_object
              query_result == ExplainedResult(Rows(length), count, fields, query_time_ms)
          IN /\ ex_call' = [fn |-> "generate_result_explanation", mongo_query |-> mongo_query,
                            query_result |-> query_result, result_data |-> Rows(length),
                            detected |-> detected, reply |-> reply]
             /\ ex_out' = generate_result_explanation(PyStr("hello"), mongo_query, query_result,
                                                      detected, reply)
    /\ ex_pc' = "done"
    /\ UNCHANGED <<sanVars, genVars, cacheVars, pipeVars, valVars, raceVars>>

\* lines 329-372 of app/routers/database.py, on the list of documents that
\* execute_mongodb_query answered
SdkExplanationStep ==
    /\ ex_pc = "ready"
    /\ \E mongo_query \in ExplainedQueries, length \in DocumentCounts,
          fields \in ResultFields, query_time_ms \in QueryTimes,
          detected \in Detections, reply \in ExplanationReplies :
          LET result_data == Rows(length)
              query_result == ExplainedResult(result_data, ResultCount(result_data), fields,
                                              query_time_ms)
          IN /\ ex_call' = [fn |-> "process_sdk_query", mongo_query |-> mongo_query,
                            query_result |-> query_result, result_data |-> result_data,
                            detected |-> detected, reply |-> reply]
             /\ ex_out' = Return(SdkMongoExplanation(PyStr("hello"), mongo_query, query_result,
                                                     result_data, detected, reply))
    /\ ex_pc' = "done"
    /\ UNCHANGED <<sanVars, genVars, cacheVars, pipeVars, valVars, raceVars>>

ExplNext == ExplainResult \/ SdkExplanationStep
ExplainInit == ExplInit /\ SanIdle /\ GenIdle /\ CacheIdle /\ PipeIdle /\ ValIdle /\ RaceIdle
SpecExplain == ExplainInit /\ [][ExplNext]_vars

(***************************************************************************)
(* Properties of the request pipeline                                      *)
(***************************************************************************)
\* C1: in process_natural_language_query, execute_query and
\* execute_aggregation, a request that names a collection outside the
\* allowed collections of its API-key level (a level without "*") has gone
\* through no step but the permission check, has handed nothing to a
\* database engine, and ends with a permission error.
C1_DeniedCollectionIsRejectedFirst ==
    (/\ pl_req.fn \in {"process_natural_language_query", "execute_query", "execute_aggregation"}
     /\ IsStr(pl_req.collection_name)
     /\ Val(pl_req.collection_name) # ""
     /\ LET allowed == Get(COLLECTION_ACCESS, pl_req.api_key_level, {})
        IN "*" \notin allowed /\ Val(pl_req.collection_name) \notin allowed)
    => /\ \A i \in DOMAIN pl_trace : pl_trace[i] = "permission"
       /\ Len(pl_sent) = 0
       /\ pl_pc = "done"
       /\ pl_out \in {Raise("PermissionError"), Raise("permissions.PermissionError")}

\* C3: every filter or pipeline that execute_query, execute_aggregation or
\* the /sdk/query route hands to a document-store engine has been through the
\* deny-list sanitizer: sanitizing it again changes nothing, and none of
\* $where, $expr, $function is a key of the filter or of a pipeline stage.
C3_EngineReceivesSanitizedFilter ==
    pl_req.fn \in {"execute_query", "execute_aggregation", "process_sdk_query"}
    => \A i \in DOMAIN pl_sent :
          LET arg == pl_sent[i].arg
          IN /\ IsDict(arg) => sanitize_mongo_query(arg) = arg
             /\ IsList(arg) => \A j \in DOMAIN Val(arg) :
                                  IsDict(Val(arg)[j]) => sanitize_mongo_query(Val(arg)[j]) = Val(arg)[j]

\* C6: a result returned by execute_sql_query, execute_mongodb_query,
\* execute_query or execute_aggregation holds at most 100 rows or documents,
\* whatever limit was requested.
C6_AtMostHundredRows ==
    (/\ pl_pc = "done"
     /\ pl_req.fn \in {"execute_sql_query", "execute_mongodb_query", "execute_query",
                       "execute_aggregation"}
     /\ pl_out.ok)
    => LET result == pl_out.val
           data == IF Tag(result) = "tuple" THEN Val(result)[1] ELSE Val(result).data
       IN Tag(data) = "rows" => Val(data) <= 100

\* C8: a Cache.get made while the store does not answer returns the miss
\* value (None) and process_sql_query goes on to generate the query; a
\* Cache.set made while the store does not answer returns False and
\* process_sql_query goes on to execute the query; neither call raises.
C8_StoreDownIsAMiss ==
    (/\ pl_trace # <<>>
     /\ cache_call.op \in {"get", "set"}
     /\ ~cache_call.up)
    => /\ (cache_call.op = "get" /\ pl_trace[Len(pl_trace)] = "cache_get")
            => cache_call.out = Return(PyNone) /\ pl_pc = "sql_generate"
       /\ (cache_call.op = "set" /\ pl_trace[Len(pl_trace)] = "cache_set")
            => cache_call.out = Return(PyBool(FALSE)) /\ pl_pc = "sql_execute"

\* a Cache.get that found the store down while the cache is enabled, after
\* which the request stands before the generation step
C8_Witness ==
    /\ enable_cache
    /\ cache_call.op = "get"
    /\ ~cache_call.up
    /\ pl_trace = <<"permission", "schema", "cache_get">>
    /\ cache_call.out = Return(PyNone)
    /\ pl_pc = "sql_generate"

\* C10: no connection, pool or client opened by an execute call of an
\* adapter is still open once the call has returned or raised.
C10_AdaptersCloseWhatTheyOpen == pl_open = {}

(***************************************************************************)
(* Property of the explanation step                                        *)
(***************************************************************************)
\* C9: every request that reaches the explanation step is answered with its
\* result and an explanation that is a str and is not empty, whatever the
\* model replies and whether or not language detection raises.
C9_ExplanationNeverEmptyNorFails ==
    (/\ pl_pc = "done"
     /\ pl_req.fn \in {"process_natural_language_query", "process_sdk_query"}
     /\ pl_trace # <<>>
     /\ pl_trace[Len(pl_trace)] = "explain")
    => /\ pl_out.ok
       /\ Tag(pl_out.val) = "AIQueryResponse" => ~Val(pl_out.val).error
       /\ IsStr(Val(pl_out.val).explanation)
       /\ Len(Val(Val(pl_out.val).explanation)) > 0

(***************************************************************************)
(* app/middleware/request_validator.py: RequestValidator                   *)
(***************************************************************************)
ALLOWED_OPERATORS ==
    {"$gt", "$lt", "$gte", "$lte", "$eq", "$ne", "$in", "$nin",
     "$group", "$sum", "$avg", "$min", "$max", "$count", "$push",
     "$addToSet", "$first", "$last", "$match", "$project",
     "$lookup", "$unwind", "$sort", "$limit", "$skip",
     "$set", "$unset", "$inc", "$mul", "$rename", "$exists"}

\* lines 92-117: does the walk over data reach the raise of line 103?
RECURSIVE MaliciousPattern(_, _)
MaliciousPattern(data, is_mongodb_route) ==
    IF IsDict(data) THEN
        LET d == Val(data)
            is_pipeline_context ==
                \/ "pipeline" \in DOMAIN d
                \/ ("operation" \in DOMAIN d /\ d["operation"] = PyStr("aggregate"))
        IN \E key \in DOMAIN d :
              \/ /\ StartsWith(key, "$")
                 /\ ~(key \in ALLOWED_OPERATORS \/ is_mongodb_route \/ is_pipeline_context)
              \/ MaliciousPattern(d[key],
                                  is_mongodb_route \/ is_pipeline_context \/ key = "pipeline")
    ELSE IF IsList(data) THEN
        \E i \in DOMAIN Val(data) : MaliciousPattern(Val(data)[i], is_mongodb_route)
    ELSE FALSE

check_for_malicious_patterns(data, is_mongodb_route) ==
    IF MaliciousPattern(data, is_mongodb_route) THEN HTTPException("400") ELSE Return(PyNone)

(***************************************************************************)
(* Harness of the validator: a JSON body is assembled from the inside out, *)
(* then _check_for_malicious_patterns walks it.                            *)
(***************************************************************************)
MaxBodyNodes == 5
BodyKeys == {"pipeline", "operation", "query", "$where", "$gt"}
BodyLeaves == {PyStr("aggregate"), PyInt(1)}

ValInit ==
    /\ rv_pc = "build"
    /\ rv_body \in BodyLeaves \cup {EmptyDict}
    /\ rv_n = 1
    /\ rv_route \in BOOLEAN
    /\ rv_out = PyNone

ValWrapDict ==
    /\ rv_pc = "build"
    /\ rv_n < MaxBodyNodes
    /\ \E k \in BodyKeys : rv_body' = Dict(k :> rv_body)
    /\ rv_n' = rv_n + 1
    /\ UNCHANGED <<rv_pc, rv_route, rv_out, sanVars, genVars, cacheVars, pipeVars, explVars, raceVars>>

ValAddKey ==
    /\ rv_pc = "build"
    /\ IsDict(rv_body)
    /\ rv_n < MaxBodyNodes
    /\ \E k \in BodyKeys \ DOMAIN Val(rv_body), leaf \in BodyLeaves :
          rv_body' = Dict(Put(Val(rv_body), k, leaf))
    /\ rv_n' = rv_n + 1
    /\ UNCHANGED <<rv_pc, rv_route, rv_out, sanVars, genVars, cacheVars, pipeVars, explVars, raceVars>>

ValWrapList ==
    /\ rv_pc = "build"
    /\ rv_n < MaxBodyNodes
    /\ rv_body' = List(<<rv_body>>)
    /\ rv_n' = rv_n + 1
    /\ UNCHANGED <<rv_pc, rv_route, rv_out, sanVars, genVars, cacheVars, pipeVars, explVars, raceVars>>

\* line 44
ValCheck ==
    /\ rv_pc = "build"
    /\ rv_out' = check_for_malicious_patterns(rv_body, rv_route)
    /\ rv_pc' = "done"
    /\ UNCHANGED <<rv_body, rv_n, rv_route, sanVars, genVars, cacheVars, pipeVars, explVars, raceVars>>

ValNext == ValWrapDict \/ ValAddKey \/ ValWrapList \/ ValCheck
ValidateInit == ValInit /\ SanIdle /\ GenIdle /\ CacheIdle /\ PipeIdle /\ ExplIdle /\ RaceIdle
SpecValidate == ValidateInit /\ [][ValNext]_vars

\* a key that begins with `$`, is not an allowed operator and does not lie
\* inside the value of a `pipeline` key
RECURSIVE DisallowedOutsidePipeline(_)
DisallowedOutsidePipeline(v) ==
    IF IsDict(v) THEN
        \E k \in DOMAIN Val(v) :
            \/ StartsWith(k, "$") /\ k \notin ALLOWED_OPERATORS
            \/ k # "pipeline" /\ DisallowedOutsidePipeline(Val(v)[k])
    ELSE IF IsList(v) THEN \E i \in DOMAIN Val(v) : DisallowedOutsidePipeline(Val(v)[i])
    ELSE FALSE

\* C11: on a route other than process_results, a body holding a `$` key that
\* is not an allowed operator and lies outside every pipeline subtree is
\* rejected with status 400, also when a sibling field is named `pipeline`.
C11_DisallowedOperatorIsRejected ==
    (rv_pc = "done" /\ ~rv_route /\ DisallowedOutsidePipeline(rv_body))
    => rv_out = HTTPException("400")

(***************************************************************************)
(* Properties of the routes                                                *)
(***************************************************************************)
\* what the caller of the route receives
RouteOutcome ==
    IF pl_req.fn = "process_natural_language_query"
    THEN natural_language_query(pl_req.api_key_level, pl_out)
    ELSE pl_out

\* C12: every route of the pipeline answers either a response body that
\* carries an explanation, or an error with an HTTP status; it never answers
\* a null body or a body whose explanation is null.
C12_ResultOrStructuredError ==
    (/\ pl_pc = "done"
     /\ pl_req.fn \in {"process_natural_language_query", "process_sdk_query",
                       "process_query_results", "identify_query_collections"})
    => \/ RouteOutcome \in {HTTPException(s) : s \in {"400", "403", "500"}}
       \/ /\ RouteOutcome.ok
          /\ RouteOutcome.val # PyNone
          /\ Val(RouteOutcome.val).explanation # PyNone

(***************************************************************************)
(* Property of the error message of the MongoDB adapter                    *)
(***************************************************************************)
\* the hint the message must end with, by the text of the driver's error
RemediationHints ==
    <<[pattern |-> "Authentication failed", hint |-> "credentials"],
      [pattern |-> "not authorized",        hint |-> "permissions"],
      [pattern |-> "No such collection",    hint |-> "does not exist"],
      [pattern |-> "Connection refused",    hint |-> "connect"]>>

\* C13: when execute_mongodb_query fails with a driver error, the error it
\* raises carries the driver's text, followed by a hint about the remedy
\* for each of the four kinds of error the text may name.
C13_DriverErrorCarriesHint ==
    (/\ pl_pc = "done"
     /\ pl_req.fn = "execute_mongodb_query"
     /\ ~pl_out.ok
     /\ Val(Val(pl_req.mongo_query).operation) \in {"find", "aggregate", "findOne", "deleteOne"}
     /\ pl_req.server.fault # "none")
    => LET driver_text == pl_req.server.error
           said == Len("Error executing MongoDB query: ") + Len(driver_text)
           hint == Lower(SubSeq(pl_out.message, said + 1, Len(pl_out.message)))
       IN /\ In(driver_text, pl_out.message)
          /\ \A i \in DOMAIN RemediationHints :
                In(RemediationHints[i].pattern, driver_text) => In(RemediationHints[i].hint, hint)

(***************************************************************************)
(* Property of unsupported engines and operations                          *)
(***************************************************************************)
SqlEngines == {"sqlite", "mysql", "postgresql"}
DocumentOperations == {"find", "findone", "aggregate", "insertone", "updateone", "deleteone"}

\* the request names an SQL engine outside SqlEngines, or a document
\* operation outside DocumentOperations
UnsupportedRequest ==
    \/ /\ pl_req.fn \in {"execute_sql_query", "process_natural_language_query"}
       /\ IsDict(pl_req.db_config)
       /\ Get(Val(pl_req.db_config), "type", PyNone) = PyStr("sql")
       /\ Lower(Val(Get(Val(pl_req.db_config), "engine", PyStr("")))) \notin SqlEngines
    \/ /\ pl_req.fn = "execute_mongodb_query"
       /\ Lower(Val(Val(pl_req.mongo_query).operation)) \notin DocumentOperations

\* C14: a request for an engine or an operation that is not supported ends
\* in an error, with nothing handed to a database engine; it is not answered
\* with a response.
C14_UnsupportedEndsInError ==
    (pl_pc = "done" /\ UnsupportedRequest)
    => /\ ~RouteOutcome.ok
       /\ pl_sent = <<>>

(***************************************************************************)
(* Property of the target selector                                         *)
(***************************************************************************)
\* C15: the target chosen for a question and a list of collections on a
\* live connection is the target chosen for them on every live connection,
\* whatever the document counts it answers.
C15_SameTargetOnEveryCall ==
    (/\ gen_pc = "done"
     /\ gen_call.fn = "determine_best_collection"
     /\ gen_call.db_connection.kind = "counts")
    => \A again \in LiveConnections :
          determine_best_collection(gen_call.query, gen_call.available_collections, again)
              = gen_out.val

(***************************************************************************)
(* Properties of the deny-list sanitizer                                   *)
(***************************************************************************)
\* C16: sanitize_mongo_query applied to its own result answers that result.
C16_SanitizerIsIdempotent ==
    sq_pc = "done" => sanitize_mongo_query(sq_out) = sq_out

\* the filter held denied keys at two depths and the call removed some
C16_Witness ==
    /\ sq_pc = "done"
    /\ sq_out # sq_in
    /\ \E k \in DOMAIN Val(sq_in) :
          k \notin dangerous_operators /\ HasDangerousKey(Val(sq_in)[k])

\* out is v with nothing but denied keys removed: every other key is there,
\* lists keep their length and order, leaves are the same
RECURSIVE OnlyDeniedKeysRemoved(_, _)
OnlyDeniedKeysRemoved(v, out) ==
    IF IsDict(v) THEN
        /\ IsDict(out)
        /\ DOMAIN Val(out) \subseteq DOMAIN Val(v)
        /\ DOMAIN Val(v) \ DOMAIN Val(out) \subseteq dangerous_operators
        /\ \A k \in DOMAIN Val(out) : OnlyDeniedKeysRemoved(Val(v)[k], Val(out)[k])
    ELSE IF IsList(v) THEN
        /\ IsList(out)
        /\ Len(Val(out)) = Len(Val(v))
        /\ \A i \in DOMAIN Val(v) : OnlyDeniedKeysRemoved(Val(v)[i], Val(out)[i])
    ELSE out = v

\* C17: sanitize_mongo_query removes nothing but keys of the deny-list: the
\* other keys keep their values, up to denied keys removed inside them, and
\* lists keep their elements in number and order; the filter of scenario B
\* comes out as {"age": {"$gt": 18}}.
C17_OnlyDeniedKeysAreRemoved ==
    /\ sq_pc = "done" => OnlyDeniedKeysRemoved(sq_in, sq_out)
    /\ sanitize_mongo_query(Dict([k \in {"age", "$where"} |->
                                    IF k = "age" THEN Dict("$gt" :> PyInt(18))
                                    ELSE PyStr("this.a==1")]))
         = Dict("age" :> Dict("$gt" :> PyInt(18)))

\* a filter with a denied key beside a list that holds a leaf and a dict
C17_Witness ==
    /\ sq_pc = "done"
    /\ \E k \in DOMAIN Val(sq_in) : k \in dangerous_operators
    /\ \E k \in DOMAIN Val(sq_out) :
          /\ IsList(Val(sq_out)[k])
          /\ Len(Val(Val(sq_out)[k])) = 2
          /\ \E i, j \in 1..2 : ~IsDict(Val(Val(sq_out)[k])[i]) /\ IsDict(Val(Val(sq_out)[k])[j])

\* C18: the sanitizer answers a value, and raises nothing, for every value
\* it is called on, a pipeline stage that is no dict included.
C18_SanitizerNeverRaises ==
    /\ sq_pc # "raised"
    /\ (pl_pc = "done" /\ pl_req.fn = "execute_aggregation")
          => pl_out # Raise("AttributeError")

(***************************************************************************)
(* The generated-query cache of process_sql_query                          *)
(***************************************************************************)
\* C19: an entry of the query cache is written only on a miss and only after
\* the model call of the request produced a query: the fallback query of a
\* failed generation is not written.
C19_CacheWrittenOnlyAfterGeneration ==
    (/\ pl_req.fn = "process_natural_language_query"
     /\ pl_trace # <<>>
     /\ pl_trace[Len(pl_trace)] = "cache_set"
     /\ cache_call.out = Return(PyBool(TRUE)))
    => /\ pl_trace[Len(pl_trace) - 2] = "cache_get"
       /\ pl_local.reply.kind = "content"
       /\ IsStr(pl_local.reply.content)

(***************************************************************************)
(* Dispatch of execute_mongodb_query on the operation of the query         *)
(***************************************************************************)
\* the engine call of each operation, under the name the constructor leaves
EngineCallOf ==
    [find |-> "find", findone |-> "find_one", aggregate |-> "aggregate",
     insertone |-> "insert_one", updateone |-> "update_one", deleteone |-> "delete_one"]

\* C20: for a query built by the constructor of MongoDBQuery,
\* execute_mongodb_query sends each of find, findOne, aggregate, insertOne,
\* updateOne and deleteOne to its own engine call, and none of them ends in
\* the error 'operation not supported'.
C20_EachOperationHasItsEngineCall ==
    (/\ pl_pc = "done"
     /\ pl_req.fn = "execute_mongodb_query"
     /\ Val(Val(pl_req.mongo_query).operation) \in DOMAIN EngineCallOf)
    => /\ pl_out.ok \/ ~In("operation not supported", pl_out.message)
       /\ \A i \in DOMAIN pl_sent :
             pl_sent[i].op = EngineCallOf[Val(Val(pl_req.mongo_query).operation)]

(***************************************************************************)
(* The collection of the generated query                                   *)
(***************************************************************************)
\* the target of the call made: the caller's collection, else the selector's
SelectedOfCall ==
    SelectedCollection(gen_call.query, AvailableCollections(gen_call.db_info).val,
                       gen_call.collection_name, gen_call.db_connection)

\* C21: when a target collection was selected, by the caller or by the
\* selector, the MongoDBQuery that generate_mongodb_query returns has that
\* collection, whatever the model answered and on the fallback path too.
C21_CollectionIsTheSelectedTarget ==
    (/\ gen_pc = "done"
     /\ gen_call.fn = "generate_mongodb_query"
     /\ gen_out.ok
     /\ ~IsNone(SelectedOfCall))
    => Val(gen_out.val).collection = SelectedOfCall

\* the model named orders while users was selected, and the query is on users
C21_Witness ==
    /\ gen_pc = "done"
    /\ gen_call.fn = "generate_mongodb_query"
    /\ gen_out.ok
    /\ gen_call.reply.kind = "content"
    /\ IsText(gen_call.reply.content)
    /\ IsDict(Val(gen_call.reply.content).body)
    /\ Get(Val(Val(gen_call.reply.content).body), "collection", PyNone) = PyStr("orders")
    /\ SelectedOfCall = PyStr("users")
    /\ Val(gen_out.val).collection = PyStr("users")
    /\ Val(gen_out.val).operation = PyStr("aggregate")

(***************************************************************************)
(* The queries answered when the model call fails                          *)
(***************************************************************************)
\* the tables of the schema of the call made, in iteration order
TablesOfCall == Keys(GetOrEmpty(gen_call.db_info, "tables"))

\* C22: when the model call fails, generate_sql_query returns
\* SELECT * FROM <t> LIMIT 10 with <t> the first table of the schema, and
\* generate_mongodb_query returns a find with an empty filter and limit 10
\* on the selected collection, or on the first available one when none was
\* selected.
C22_FallbackQueries ==
    /\ (/\ gen_pc = "done"
        /\ gen_call.fn = "generate_sql_query"
        /\ gen_call.reply.kind = "raise"
        /\ TablesOfCall.ok
        /\ Len(TablesOfCall.val) > 0)
       => gen_out = Return(PyStr("SELECT * FROM " \o TablesOfCall.val[1] \o " LIMIT 10"))
    /\ (/\ gen_pc = "done"
        /\ gen_call.fn = "generate_mongodb_query"
        /\ gen_call.reply.kind = "raise"
        /\ AvailableCollections(gen_call.db_info).ok
        /\ \/ ~IsNone(SelectedOfCall)
           \/ Len(AvailableCollections(gen_call.db_info).val) > 0)
       => /\ gen_out.ok
          /\ Val(gen_out.val).collection =
                IF ~IsNone(SelectedOfCall) THEN SelectedOfCall
                ELSE PyStr(AvailableCollections(gen_call.db_info).val[1])
          /\ Val(gen_out.val).operation = PyStr("find")
          /\ Val(gen_out.val).filter = EmptyDict
          /\ Val(gen_out.val).query = EmptyDict
          /\ Val(gen_out.val).limit = PyInt(10)

\* the model call failed on a schema of two tables: the query names the first
C22_Witness ==
    /\ gen_pc = "done"
    /\ gen_call.fn = "generate_sql_query"
    /\ gen_call.reply.kind = "raise"
    /\ TablesOfCall.ok
    /\ Len(TablesOfCall.val) = 2
    /\ gen_out = Return(PyStr("SELECT * FROM users LIMIT 10"))

(***************************************************************************)
(* The target selector on its own                                          *)
(***************************************************************************)
\* the positions of the collections whose lower-cased name, or that name
\* minus a trailing "s", is part of the lower-cased question
MentionedInCall ==
    {i \in DOMAIN gen_call.available_collections :
        LET name == Lower(gen_call.available_collections[i])
            singular == IF Len(name) > 0 /\ SubSeq(name, Len(name), Len(name)) = "s"
                        THEN SubSeq(name, 1, Len(name) - 1) ELSE name
        IN In(name, Lower(gen_call.query)) \/ In(singular, Lower(gen_call.query))}

\* C23: with two or more targets, when the question holds the name of a
\* target or that name minus a trailing "s", in any case of letters,
\* determine_best_collection returns the first such target of the list,
\* whatever the themes, the counts and the later stages would choose.
C23_FirstMentionedTargetWins ==
    (/\ gen_pc = "done"
     /\ gen_call.fn = "determine_best_collection"
     /\ Len(gen_call.available_collections) >= 2
     /\ MentionedInCall # {})
    => /\ \E i \in MentionedInCall :
             /\ \A j \in MentionedInCall : i <= j
             /\ gen_out = Return(PyStr(gen_call.available_collections[i]))
       /\ determine_best_collection("how many users do we have", <<"users", "orders">>,
                                    gen_call.db_connection) = PyStr("users")

\* both targets are mentioned, the first by its singular, and the connection
\* holds more documents in the second
C23_Witness ==
    /\ gen_pc = "done"
    /\ gen_call.fn = "determine_best_collection"
    /\ gen_call.query = "Orders of a user"
    /\ gen_call.available_collections = <<"users", "orders">>
    /\ gen_call.db_connection.kind = "counts"
    /\ gen_call.db_connection.counts["orders"] > gen_call.db_connection.counts["users"]
    /\ gen_out = Return(PyStr("users"))

\* C24: determine_best_collection returns None exactly when the list of
\* targets is empty; otherwise it returns an element of the list, the only
\* one when there is one, whether the connection is absent, answers or raises.
C24_TargetIsOfTheList ==
    (gen_pc = "done" /\ gen_call.fn = "determine_best_collection")
    => /\ gen_out.ok
       /\ IsNone(gen_out.val) <=> gen_call.available_collections = <<>>
       /\ gen_call.available_collections # <<>>
             => \E i \in DOMAIN gen_call.available_collections :
                   gen_out.val = PyStr(gen_call.available_collections[i])
       /\ Len(gen_call.available_collections) = 1
             => gen_out.val = PyStr(gen_call.available_collections[1])

\* no stage finds a collection and the count lookup raises: the first of the list
C24_Witness ==
    /\ gen_pc = "done"
    /\ gen_call.fn = "determine_best_collection"
    /\ gen_call.query = "hello"
    /\ gen_call.available_collections = <<"logs", "orders">>
    /\ gen_call.db_connection.kind = "raise"
    /\ gen_out = Return(PyStr("logs"))

(***************************************************************************)
(* The pipeline of an aggregate call                                       *)
(***************************************************************************)
\* C25: every pipeline sent to the engine by an aggregate call holds a
\* $limit stage.
C25_AggregateCarriesLimit ==
    \A i \in DOMAIN pl_sent :
        pl_sent[i].op = "aggregate"
        => \E j \in DOMAIN Val(pl_sent[i].arg) :
              /\ IsDict(Val(pl_sent[i].arg)[j])
              /\ "$limit" \in DOMAIN Val(Val(pl_sent[i].arg)[j])

(***************************************************************************)
(* The schema context of the prompt                                        *)
(***************************************************************************)
\* C26: when the serialized schema is over 10,000 characters, the context of
\* the prompt holds the first 5 tables, all of them when there are fewer,
\* and its note states the number of tables left out, total minus included,
\* which is never negative.
C26_NoteCountsOmittedTables ==
    (/\ gen_pc = "done"
     /\ gen_call.fn = "generate_sql_query"
     /\ gen_call.db_context.ok
     /\ gen_call.db_context.truncated)
    => /\ gen_call.db_context.tables
             = SubSeq(TablesOfCall.val, 1, Min(5, Len(TablesOfCall.val)))
       /\ gen_call.db_context.omitted
             = Len(TablesOfCall.val) - Len(gen_call.db_context.tables)
       /\ gen_call.db_context.omitted >= 0

(***************************************************************************)
(* Introspection of an SQL schema                                          *)
(***************************************************************************)
\* the names of the tables of the returned schema
ReturnedTables == {gen_out.val.tables[i].name : i \in DOMAIN gen_out.val.tables}

\* C27: a failure in the column query, the count or the sample of one table
\* leaves the other tables in the schema that get_sql_database_info returns,
\* and a failed count shows as the unknown marker of that table only.
C27_TableFailureIsLocal ==
    (gen_pc = "done" /\ gen_call.fn = "get_sql_database_info")
    => /\ \A i \in DOMAIN gen_call.names :
             gen_call.faults[i] = "none" => gen_call.names[i] \in ReturnedTables
       /\ \A i \in DOMAIN gen_out.val.tables :
             gen_out.val.tables[i].approx_count = PyStr("desconocido")
                <=> gen_call.faults[i] = "count"

(***************************************************************************)
(* app/services/db_service.py: two invocations of process_sql_query with   *)
(* the same question, table and configuration, on a cache that holds no    *)
(* query.  Each runs lines 562-590 in order; between two steps of one the   *)
(* other may take any number of its own.                                   *)
(***************************************************************************)
Invocations == {"first", "second"}
RaceConfig == SqlConfig("sqlite", "app.db")
RaceKey == generate_key("sql_query", <<PyStr("hello"), PyNone, PyStr("cfg1")>>)
RaceReplies ==
    {ReplyRaises, ReplyContent(PyStr("SELECT name FROM users LIMIT 100")),
     ReplyContent(PyStr("SELECT * FROM users LIMIT 100"))}
RaceServer == [fault |-> "none", rows |-> 1, error |-> ""]

RaceInit ==
    /\ rc_pc = [p \in Invocations |-> "schema"]
    /\ rc_spec = [p \in Invocations |-> PyNone]
    /\ rc_gen = [p \in Invocations |-> PyNone]
    /\ rc_exec = [p \in Invocations |-> <<>>]
    /\ rc_writes = <<>>

\* line 562
RaceSchema(p) ==
    /\ rc_pc[p] = "schema"
    /\ LET info == get_sql_database_info(RaceConfig, enable_cache, redis_up, redis_db, now, RaceServer)
       IN redis_db' = info.db
    /\ rc_pc' = [rc_pc EXCEPT ![p] = "cache_get"]
    /\ UNCHANGED <<rc_spec, rc_gen, rc_exec, rc_writes, enable_cache, redis_up, now, cache_call,
                   last_set, sanVars, genVars, pipeVars, explVars, valVars>>

\* lines 565-580
RaceCacheGet(p) ==
    /\ rc_pc[p] = "cache_get"
    /\ LET cached_response == Cache_get(enable_cache, redis_up, redis_db, now, RaceKey, PyNone)
       IN IF cached_response.ok /\ Truthy(cached_response.val)
          THEN /\ rc_spec' = [rc_spec EXCEPT ![p] = cached_response.val]
               /\ rc_pc' = [rc_pc EXCEPT ![p] = "execute"]
          ELSE /\ rc_pc' = [rc_pc EXCEPT ![p] = "generate"]
               /\ UNCHANGED rc_spec
    /\ UNCHANGED <<rc_gen, rc_exec, rc_writes, cacheVars, sanVars, genVars, pipeVars, explVars, valVars>>

\* line 583
RaceGenerate(p) ==
    /\ rc_pc[p] = "generate"
    /\ \E reply \in RaceReplies :
          LET sql_query == generate_sql_query("hello", SchemaInfo(Tables(<<"users", "orders">>)),
                                              "sqlite", reply)
          IN /\ rc_spec' = [rc_spec EXCEPT ![p] = sql_query.val]
             /\ rc_gen' = [rc_gen EXCEPT ![p] = sql_query.val]
    /\ rc_pc' = [rc_pc EXCEPT ![p] = "cache_set"]
    /\ UNCHANGED <<rc_exec, rc_writes, cacheVars, sanVars, genVars, pipeVars, explVars, valVars>>

\* line 586
RaceCacheSet(p) ==
    /\ rc_pc[p] = "cache_set"
    /\ LET stored == Cache_set(enable_cache, redis_up, redis_db, now, RaceKey, rc_spec[p],
                               PyInt(SqlCacheTTL))
       IN /\ redis_db' = stored.db
          /\ rc_writes' = IF stored.out = Return(PyBool(TRUE))
                          THEN Append(rc_writes, [by |-> p, value |-> rc_spec[p]])
                          ELSE rc_writes
    /\ rc_pc' = [rc_pc EXCEPT ![p] = "execute"]
    /\ UNCHANGED <<rc_spec, rc_gen, rc_exec, enable_cache, redis_up, now, cache_call, last_set,
                   sanVars, genVars, pipeVars, explVars, valVars>>

\* line 590
RaceExecute(p) ==
    /\ rc_pc[p] = "execute"
    /\ rc_exec' = [rc_exec EXCEPT ![p] = execute_sql_query(rc_spec[p], RaceConfig, RaceServer).sent]
    /\ rc_pc' = [rc_pc EXCEPT ![p] = "done"]
    /\ UNCHANGED <<rc_spec, rc_gen, rc_writes, cacheVars, sanVars, genVars, pipeVars, explVars, valVars>>

\* the Redis server goes away or comes back while requests are running
RaceOutage ==
    /\ \E p \in Invocations : rc_pc[p] # "done"
    /\ redis_up' = ~redis_up
    /\ UNCHANGED <<enable_cache, redis_db, now, cache_call, last_set, raceVars,
                   sanVars, genVars, pipeVars, explVars, valVars>>

RaceNext ==
    \/ \E p \in Invocations :
          RaceSchema(p) \/ RaceCacheGet(p) \/ RaceGenerate(p) \/ RaceCacheSet(p) \/ RaceExecute(p)
    \/ RaceOutage

ConcurrentInit == RaceInit /\ CacheInit /\ SanIdle /\ GenIdle /\ PipeIdle /\ ExplIdle /\ ValIdle
SpecRace == ConcurrentInit /\ [][RaceNext]_vars

\* C28: however two invocations with the same fingerprint interleave on a
\* cache without the query, the cache afterwards holds the whole query of
\* the latest write, which is the query its writer generated, and each
\* invocation hands to the engine one whole query that it generated itself
\* or that a write had put in the cache.
C28_LastWriteWins ==
    /\ rc_writes # <<>>
          => LET last == rc_writes[Len(rc_writes)]
             IN /\ RaceKey \in DOMAIN redis_db
                /\ redis_db[RaceKey].bytes = Encode(Serialize(last.value).val).val
                /\ last.value = rc_gen[last.by]
    /\ \A p \in Invocations :
          rc_pc[p] = "done"
          => /\ rc_exec[p] = <<EngineCall("sql", rc_spec[p])>>
             /\ \/ rc_spec[p] = rc_gen[p]
                \/ \E i \in DOMAIN rc_writes : rc_writes[i].value = rc_spec[p]

\* both invocations missed, generated different queries and wrote them
C28_Witness ==
    /\ \A p \in Invocations : rc_pc[p] = "done"
    /\ Len(rc_writes) = 2
    /\ rc_writes[1].by # rc_writes[2].by
    /\ rc_writes[1].value # rc_writes[2].value
    /\ redis_db[RaceKey].bytes = Encode(rc_writes[2].value).val

(***************************************************************************)
(* The query object after its execution                                    *)
(***************************************************************************)
\* C29: execute_mongodb_query leaves the query it is given as it was: the
\* pipeline has the same stages after the call, and a second call with the
\* same object sends the same calls to the engine.
C29_ExecutionLeavesQueryUnchanged ==
    (pl_pc = "done" /\ pl_req.fn = "execute_mongodb_query")
    => /\ pl_req.mongo_query_after = pl_req.mongo_query
       /\ execute_mongodb_query(pl_req.mongo_query_after, pl_req.db_config, pl_req.server).sent
             = pl_sent

(***************************************************************************)
(* Cache keys of different requests                                        *)
(***************************************************************************)
\* C30: two requests that differ in the question, the collection or the
\* config id get different cache keys, a collection of None against the str
\* "None" and values that hold ":" included.
C30_DifferentRequestsDifferentKeys ==
    (/\ gen_pc = "done"
     /\ gen_call.fn = "generate_key"
     /\ gen_call.first # gen_call.second)
    => gen_out.val[1] # gen_out.val[2]

====
